---- MODULE Spec2Model ----
(***************************************************************************)
(* Model of the incident bot: the channel-name formatter, the request      *)
(* validation, and the incident-creation workflow of                       *)
(* backend/bot/incident/incident.py together with the reaction handler of  *)
(* backend/bot/slack/handler.py that enters it.                            *)
(*                                                                         *)
(* Text is modelled as a sequence of one-character strings, so that the    *)
(* formatter's character operations (strip, replace, lower, decimal        *)
(* rendering of the clock fields) are computed, not assumed.               *)
(*                                                                         *)
(* Eight specifications share the variables:                               *)
(*   SpecFormat    one application of Incident.__format_channel_name       *)
(*   SpecValidate  one application of RequestParameters.validate           *)
(*   Spec          one event handled from start to end: a call of          *)
(*                 create_incident, or a reaction_added event              *)
(*   SpecEvents    several events handled one after the other, the         *)
(*                 platform's channels and the database kept between them  *)
(*   SpecGithub    a GithubIssue of backend/bot/github/issue.py: its       *)
(*                 construction and calls of new                           *)
(*   SpecPins      one pin_added event: the incident lookup and            *)
(*                 MessageContent.store_to_db                              *)
(*   SpecChatter   message events handled one after the other by           *)
(*                 handle_message_events                                   *)
(*   SpecDispatch  message events handled by several threads at once       *)
(*                                                                         *)
(* Collaborators outside the source are modelled by what the call sites    *)
(* rely on: a chat-platform call either succeeds or raises SlackApiError; a *)
(* database call either succeeds or raises; pd_api.page either succeeds or  *)
(* raises; invite_user_to_channel and the audit log's write do not raise;   *)
(* the created channel's name is the name asked for. The flow runs outside  *)
(* the test environment (config.is_test_environment is false).              *)
(***************************************************************************)
EXTENDS Integers, Sequences, FiniteSets, TLC

VARIABLES
    fmt,        \* SpecFormat: one application of Incident.__format_channel_name
    val,        \* SpecValidate: one application of RequestParameters.validate
    gh,         \* SpecGithub: a GithubIssue object, its repository and the stored issue link
    pin,        \* SpecPins: the pin_added handler, the incident table and the pinned content
    trk,        \* SpecChatter, SpecDispatch: the digest-channel tracking and its handlers
    config,     \* config.active and the workspace data loaded at start-up
    pc,         \* position of the running handler
    entry,      \* the entry point that started the flow
    req,        \* request_parameters of the create_incident call
    now,        \* datetime.now() as read by the formatter in this flow
    loc,        \* local variables of create_incident and of its optional-features run
    calls,      \* every collaborator call and error log of the flow, in order
    channels,   \* chat platform: names of the channels that exist
    db,         \* persistence collaborator: the incident records stored
    result,     \* how the create_incident call ended
    reacji,     \* how make_reacji_incident ended
    faults,     \* number of collaborator failures so far
    events      \* number of the event being handled

flowVars == <<config, pc, entry, req, now, loc, calls, channels, db, result, reacji, faults, events>>
vars == <<fmt, val, gh, pin, trk, config, pc, entry, req, now, loc, calls, channels, db, result, reacji, faults,
          events>>

----------------------------------------------------------------------------
(* Text helpers *)

UpperSeq == <<"A","B","C","D","E","F","G","H","I","J","K","L","M",
              "N","O","P","Q","R","S","T","U","V","W","X","Y","Z">>
LowerSeq == <<"a","b","c","d","e","f","g","h","i","j","k","l","m",
              "n","o","p","q","r","s","t","u","v","w","x","y","z">>
DigitSeq == <<"0","1","2","3","4","5","6","7","8","9">>

Range(s) == {s[i] : i \in DOMAIN s}

UpperChars == Range(UpperSeq)
LowerChars == Range(LowerSeq)
DigitChars == Range(DigitSeq)

\* the character class \s of Python's re for the characters used here
WhitespaceChars == {" ", "\t", "\n", "\r", "\f"}

\* str.lower() on one character
LowerChar(c) ==
    IF c \in UpperChars
    THEN LowerSeq[CHOOSE i \in DOMAIN UpperSeq : UpperSeq[i] = c]
    ELSE c

\* str(n) for a natural number: decimal digits, no padding
RECURSIVE IntToStr(_)
IntToStr(n) ==
    IF n < 10 THEN <<DigitSeq[n + 1]>>
    ELSE IntToStr(n \div 10) \o <<DigitSeq[(n % 10) + 1]>>

\* a run of n copies of the character c
Fill(c, n) == [i \in 1..n |-> c]

----------------------------------------------------------------------------
(* Module constants of incident.py *)

channel_name_length_cap == 80

\* len("inc-20211116-")
channel_name_prefix_length == Len(<<"i","n","c","-","2","0","2","1","1","1","1","6","-">>)

incident_description_max_length == channel_name_length_cap - channel_name_prefix_length

----------------------------------------------------------------------------
(* Incident.__format_channel_name *)

\* re.sub("[^A-Za-z0-9\s]", "", s)
StripSpecial(s) ==
    SelectSeq(s, LAMBDA c : c \in UpperChars \cup LowerChars \cup DigitChars \cup WhitespaceChars)

\* s.replace(" ", "-")
ReplaceSpaces(s) == [i \in DOMAIN s |-> IF s[i] = " " THEN "-" ELSE s[i]]

\* s.lower()
Lower(s) == [i \in DOMAIN s |-> LowerChar(s[i])]

\* the mutant renders the clock fields zero-padded to two digits (strftime style)
Pad2(n) == IF n < 10 THEN <<"0">> \o IntToStr(n) ELSE IntToStr(n)

format_channel_name_padded(description, t) ==
    <<"i","n","c","-">> \o IntToStr(t.year) \o Pad2(t.month) \o Pad2(t.day)
        \o Pad2(t.hour) \o Pad2(t.minute) \o <<"-">>
        \o Lower(ReplaceSpaces(StripSpecial(description)))

\* the mutant forgets the .lower() call
format_channel_name_nolower(description, t) ==
    <<"i","n","c","-">> \o IntToStr(t.year) \o IntToStr(t.month) \o IntToStr(t.day)
        \o IntToStr(t.hour) \o IntToStr(t.minute) \o <<"-">>
        \o ReplaceSpaces(StripSpecial(description))

format_channel_name(description, t) ==
    <<"i","n","c","-">> \o IntToStr(t.year) \o IntToStr(t.month) \o IntToStr(t.day)
        \o IntToStr(t.hour) \o IntToStr(t.minute) \o <<"-">>
        \o Lower(ReplaceSpaces(StripSpecial(description)))

\* the mutant leaves the emptiness check out
DescriptionEmptyUnchecked(description) == FALSE

\* the mutant compares with > where the code has >=
DescriptionTooLongStrict(description) == Len(description) > incident_description_max_length

\* the two precondition checks of create_incident on the description (lines 223, 225)
DescriptionEmpty(description) == Len(description) = 0

DescriptionTooLong(description) == Len(description) >= incident_description_max_length

Accepts(description) == ~DescriptionEmpty(description) /\ ~DescriptionTooLong(description)

----------------------------------------------------------------------------
(* Inputs of the formatter specification *)

\* longest free-text part of a generated description
MaxBody == 2

FormatAlphabet == {"d", "B", "7", " ", "\t", "!"}

RECURSIVE SeqsUpTo(_, _)
SeqsUpTo(S, n) ==
    IF n = 0 THEN {<<>>}
    ELSE LET shorter == SeqsUpTo(S, n - 1)
         IN  shorter \cup {Append(s, c) : s \in {x \in shorter : Len(x) = n - 1}, c \in S}

Bodies == SeqsUpTo(FormatAlphabet, MaxBody)

\* a body is extended by a run of "x" so that lengths around the cap occur
FillCounts == {0} \cup ((incident_description_max_length - MaxBody - 2) .. incident_description_max_length)

DbOutage == <<"d","b"," ","o","u","t","a","g","e">>

Descriptions == {b \o Fill("x", n) : b \in Bodies, n \in FillCounts} \cup {DbOutage}

Times == [year : {2023}, month : {1, 4, 11}, day : {2, 12, 24}, hour : {0, 10}, minute : {5, 15}]

----------------------------------------------------------------------------
(* RequestParameters.validate: the schema and the validator's rule processing *)

\* a Python value as the validator sees it: its type and its printed form
PyStr(x) == [type |-> "string", v |-> x]
PyBool(x) == [type |-> "boolean", v |-> x]
PyInt(x) == [type |-> "integer", v |-> x]
PyNone == [type |-> "none", v |-> "None"]

AllSeverities == {"sev1", "sev2", "sev3", "sev4"}

FieldOrder == <<"channel", "incident_description", "user", "severity", "created_from_web",
                "is_security_incident", "private_channel", "message_reacted_to_content",
                "original_message_timestamp">>
Fields == Range(FieldOrder)

\* the schema dictionary built in validate(); hasAllowed says whether the rule "allowed" is present
Schema(severities) ==
    [f \in Fields |->
        CASE f \in {"channel", "incident_description"} ->
                [required |-> TRUE, type |-> "string", noempty |-> TRUE, hasAllowed |-> FALSE, allowed |-> {}]
          [] f = "severity" ->
                [required |-> TRUE, type |-> "string", noempty |-> TRUE, hasAllowed |-> TRUE, allowed |-> severities]
          [] f \in {"created_from_web", "is_security_incident", "private_channel"} ->
                [required |-> TRUE, type |-> "boolean", noempty |-> TRUE, hasAllowed |-> FALSE, allowed |-> {}]
          [] OTHER ->
                [required |-> FALSE, type |-> "string", noempty |-> FALSE, hasAllowed |-> FALSE, allowed |-> {}]]

\* The rules of one field, in the validator's order: nullable, type, empty, then the
\* rest; a failed nullable, type or empty rule drops the field's remaining rules.
FieldErrors(rule, value) ==
    IF value.type = "none" THEN {"null value not allowed"}
    ELSE IF value.type # rule.type THEN {"must be of " \o rule.type \o " type"}
    ELSE IF rule.noempty /\ value.type = "string" /\ value.v = "" THEN {"empty values not allowed"}
    ELSE IF rule.hasAllowed /\ value.v \notin rule.allowed THEN {"unallowed value"}
    ELSE {}

\* the mutant reports the first offending field only
ValidationErrorsFirstOnly(request, severities) ==
    LET bad == {i \in DOMAIN FieldOrder :
                    FieldErrors(Schema(severities)[FieldOrder[i]], request[FieldOrder[i]]) # {}}
    IN  IF bad = {} THEN {}
        ELSE LET i == CHOOSE k \in bad : \A j \in bad : k <= j
             IN  {<<FieldOrder[i], e>> :
                    e \in FieldErrors(Schema(severities)[FieldOrder[i]], request[FieldOrder[i]])}

\* v.errors after v.validate(self.__dict__, schema): every field with its errors
ValidationErrors(request, severities) ==
    UNION {{<<f, e>> : e \in FieldErrors(Schema(severities)[f], request[f])} : f \in Fields}

\* the requests handed to validate() in the validation specification
RawRequests ==
    [channel : {PyStr("C1"), PyStr(""), PyNone},
     incident_description : {PyStr("db outage"), PyStr("")},
     user : {PyStr("U1"), PyStr(""), PyInt("7")},
     severity : {PyStr("sev2"), PyStr("sev4"), PyStr("sev9"), PyStr(""), PyNone},
     created_from_web : {PyBool("False"), PyStr("yes")},
     is_security_incident : {PyBool("False"), PyNone},
     private_channel : {PyBool("True"), PyInt("1")},
     message_reacted_to_content : {PyStr("")},
     original_message_timestamp : {PyStr("")}]

SeverityConfigs == {AllSeverities, {"sev1", "sev2"}}

----------------------------------------------------------------------------
(* Neutral values of the variables a specification does not use *)

NoFmt == [description |-> <<>>, now |-> [year |-> 2023, month |-> 1, day |-> 2, hour |-> 0, minute |-> 5],
          name |-> <<>>, done |-> FALSE]
\* the GithubIssue slice when it is not exercised
NoGh == [pc |-> "off"]

\* the pin_added slice when it is not exercised
NoPin == [pc |-> "off"]

\* the digest-channel tracking slice when it is not exercised
NoTrk == [pc |-> "off"]

NoVal == [request |-> <<>>, severities |-> {}, errors |-> {}, raised |-> "", done |-> FALSE]

----------------------------------------------------------------------------
(* The incident-creation flow: configuration, inputs and bookkeeping *)

\* most collaborator failures in one flow
MaxFaults == 1

\* options.auto_invite_groups.groups
InviteGroups == <<"g1", "g2">>

\* read_pager_auto_page_targets(): a list of one-entry dicts team -> escalation policy
PagerTargets == <<[team |-> "t1", ep |-> "ep1"], [team |-> "t2", ep |-> "ep2"]>>

Reacji == "create-incident"

\* The workspace directory matters only with auto-invite on, and the paging targets
\* only with the paging integration on: the other combinations are left out.
Configs ==
    {c \in [severities : SeverityConfigs,
            \* options.create_from_reaction: missing, or present with its "enabled" flag
            create_from_reaction : {"absent", "disabled", "enabled"},
            auto_invite : BOOLEAN,
            \* all_workspace_groups["usergroups"]: the handles of the groups that exist
            usergroups : {{}, {"g1"}, {"g2"}, {"g1", "g2"}},
            statuspage : BOOLEAN,
            pagerduty : BOOLEAN,
            auto_page_targets : {<<>>, PagerTargets}] :
        /\ ~c.auto_invite => c.usergroups = {"g1", "g2"}
        /\ ~c.pagerduty => c.auto_page_targets = <<>>}

\* tools.random_suffix, drawn once when the module is imported
AutoDescription == <<"a","u","t","o","-","k","3","x","9","q","z">>

FlowDescriptions ==
    {<<>>, DbOutage,
     Fill("x", incident_description_max_length - 1),
     Fill("x", incident_description_max_length),
     Fill("x", incident_description_max_length + 1)}

\* RequestParameters as the callers of create_incident build them: every description
\* with a well-formed channel and severity, and one description with every channel and
\* severity
FlowRequests ==
    [channel : {"C1"},
     incident_description : FlowDescriptions,
     severity : {"sev2"},
     user : {"U1"},
     created_from_web : {FALSE},
     is_security_incident : {FALSE},
     private_channel : {FALSE},
     message_reacted_to_content : {""},
     original_message_timestamp : {""}]
    \cup
    [channel : {"C1", ""},
     incident_description : {DbOutage},
     severity : {"sev2", "sev4"},
     user : {"U1"},
     created_from_web : {FALSE},
     is_security_incident : {FALSE},
     private_channel : {FALSE},
     message_reacted_to_content : {""},
     original_message_timestamp : {""}]

FlowTimes ==
    {[year |-> 2023, month |-> 4, day |-> 24, hour |-> 10, minute |-> 5],
     [year |-> 2023, month |-> 11, day |-> 12, hour |-> 10, minute |-> 15]}

NoRequest ==
    [channel |-> "", incident_description |-> <<>>, severity |-> "", user |-> "",
     created_from_web |-> FALSE, is_security_incident |-> FALSE, private_channel |-> FALSE,
     message_reacted_to_content |-> "", original_message_timestamp |-> ""]

\* the id the chat platform gives the channel it creates
NewChannelId == <<"C","0","9">>

\* the platform gives every channel an id of its own: C09 to the channel of the first
\* event, C010 to that of the second, and so on
ChannelIdOf(n) == <<"C","0">> \o IntToStr(8 + n)

\* Local variables. "unbound" marks a Python local that was never assigned; reaction is
\* the emoji reaction_added hands to make_reacji_incident.
NoLoc ==
    [channel_name |-> <<>>, id |-> <<>>, conference_bridge |-> "",
     digest_message |-> "None", bp_message |-> "unbound",
     conference_bridge_message |-> "unbound", sp_starter_message |-> "unbound",
     members |-> "unbound", gi |-> 1, ti |-> 1, reaction |-> ""]

\* one collaborator call (or one logger.error / logger.fatal record)
CallWith(api, op, what, arg, key, ok) ==
    [api |-> api, op |-> op, what |-> what, arg |-> arg, key |-> key, ok |-> ok]
Call(api, op, what, key, ok) == CallWith(api, op, what, "", key, ok)
LogRecord(level, what) == Call("log", level, what, <<>>, TRUE)

\* create_incident's `internal` argument: only make_reacji_incident passes True
internal == entry = "reaction_added"

\* a collaborator call may fail while the failure budget lasts
MayBe(ok) == ok \/ faults < MaxFaults
Charge(ok) == faults' = IF ok THEN faults ELSE faults + 1

\* An exception leaves create_incident. Under make_reacji_incident it is caught by the
\* `except Exception` around the call, logged, and the handler returns True.
Raise(exc, trace) ==
    /\ result' = [kind |-> "raise", value |-> exc, channel |-> <<>>]
    /\ pc' = "done"
    /\ IF entry = "reaction_added"
       THEN /\ calls' = Append(trace, LogRecord("error", "create_new_incident"))
            /\ reacji' = "True"
       ELSE /\ calls' = trace
            /\ reacji' = reacji

\* create_incident returns a string
Return(value, channel) ==
    /\ result' = [kind |-> "return", value |-> value, channel |-> channel]
    /\ pc' = "done"
    /\ reacji' = IF entry = "reaction_added" THEN "True" ELSE reacji

FlowInit ==
    /\ config \in Configs
    /\ pc = "idle"
    /\ entry = "none"
    /\ req = NoRequest
    /\ now = CHOOSE t \in FlowTimes : TRUE
    /\ loc = NoLoc
    /\ calls = <<>>
    /\ channels = {}
    /\ db = {}
    /\ result = [kind |-> "none", value |-> "", channel |-> <<>>]
    /\ reacji = "none"
    /\ faults = 0
    /\ events = 1

----------------------------------------------------------------------------
(* create_incident, lines 213-229, and Incident.__init__ *)

\* a caller outside this file (modal, web API) calls create_incident(request_parameters)
CreateIncident ==
    /\ pc = "idle"
    /\ \E r \in FlowRequests, t \in FlowTimes :
          /\ req' = r
          /\ now' = t
    /\ entry' = "create_incident"
    /\ pc' = "precheck"
    /\ UNCHANGED <<fmt, val, gh, pin, trk, events, config, loc, calls, channels, db, result, reacji, faults>>

\* lines 220-228 and Incident.__init__ up to the formatted name (lines 124-132)
Precheck ==
    /\ pc = "precheck"
    /\ IF DescriptionEmpty(req.incident_description)
       THEN /\ Return("Please provide a description for the channel.", <<>>)
            /\ UNCHANGED <<loc, calls>>
       ELSE IF DescriptionTooLong(req.incident_description)
       THEN /\ Return("Incident description cannot exceed the limit.", <<>>)
            /\ UNCHANGED <<loc, calls>>
       ELSE /\ loc' = [loc EXCEPT !.channel_name = format_channel_name(req.incident_description, now)]
            /\ pc' = "create_channel"
            /\ UNCHANGED <<calls, result, reacji>>
    /\ UNCHANGED <<fmt, val, gh, pin, trk, events, config, entry, req, now, channels, db, faults>>

\* Incident.__create_incident_channel (lines 163-180) and the rest of __init__ (134-143).
\* Whether the platform refuses a name that is already taken is its own business: both
\* outcomes are allowed for such a name.
\* On SlackApiError the handler logs and then executes `return channel` with `channel`
\* never assigned: UnboundLocalError leaves __init__ and create_incident.
CreateChannel ==
    /\ pc = "create_channel"
    /\ \E ok \in BOOLEAN :
          /\ MayBe(ok) \/ loc.channel_name \in channels
          /\ Charge(ok)
          /\ LET c == Call("slack", "conversations_create", "incident", loc.channel_name, ok)
             IN  IF ok
                 THEN /\ calls' = Append(calls, c)
                      /\ channels' = channels \cup {loc.channel_name}
                      /\ loc' = [loc EXCEPT !.id = ChannelIdOf(events), !.conference_bridge = "bridge"]
                      /\ pc' = "digest"
                      /\ UNCHANGED <<result, reacji>>
                 ELSE /\ Raise("UnboundLocalError",
                               calls \o <<c, LogRecord("error", "create_channel")>>)
                      /\ UNCHANGED <<channels, loc>>
    /\ UNCHANGED <<fmt, val, gh, pin, trk, events, config, entry, req, now, db>>

\* lines 233-252: notify the digest channel
DigestNotification ==
    /\ pc = "digest"
    /\ \E ok \in BOOLEAN :
          /\ MayBe(ok)
          /\ Charge(ok)
          /\ LET c == Call("slack", "chat_postMessage", "digest", loc.id, ok)
             IN  IF ok
                 THEN /\ calls' = Append(calls, c)
                      /\ loc' = [loc EXCEPT !.digest_message = "ts_digest"]
                 ELSE /\ calls' = calls \o <<c, LogRecord("error", "digest")>>
                      /\ loc' = loc
    /\ pc' = "topic"
    /\ UNCHANGED <<fmt, val, gh, pin, trk, events, config, entry, req, now, channels, db, result, reacji>>

\* a variant of the topic step whose failure is not caught
SetTopicRaising ==
    /\ pc = "topic"
    /\ \E ok \in BOOLEAN :
          /\ MayBe(ok)
          /\ Charge(ok)
          /\ LET c == Call("slack", "conversations_setTopic", "topic", loc.id, ok)
             IN  IF ok
                 THEN /\ calls' = Append(calls, c)
                      /\ pc' = "boilerplate"
                      /\ UNCHANGED <<result, reacji>>
                 ELSE Raise("SlackApiError", Append(calls, c))
    /\ UNCHANGED <<fmt, val, gh, pin, trk, events, config, entry, req, now, loc, channels, db>>

\* lines 256-270: set the channel topic
SetTopic ==
    /\ pc = "topic"
    /\ \E ok \in BOOLEAN :
          /\ MayBe(ok)
          /\ Charge(ok)
          /\ LET c == Call("slack", "conversations_setTopic", "topic", loc.id, ok)
             IN  calls' = IF ok THEN Append(calls, c)
                          ELSE calls \o <<c, LogRecord("error", "topic")>>
    /\ pc' = "boilerplate"
    /\ UNCHANGED <<fmt, val, gh, pin, trk, events, config, entry, req, now, loc, channels, db, result, reacji>>

\* lines 274-286: post the boilerplate message; on failure bp_message stays unassigned
BoilerplateMessage ==
    /\ pc = "boilerplate"
    /\ \E ok \in BOOLEAN :
          /\ MayBe(ok)
          /\ Charge(ok)
          /\ LET c == Call("slack", "chat_postMessage", "boilerplate", loc.id, ok)
             IN  IF ok
                 THEN /\ calls' = Append(calls, c)
                      /\ loc' = [loc EXCEPT !.bp_message = "ts_bp"]
                 ELSE /\ calls' = calls \o <<c, LogRecord("error", "boilerplate")>>
                      /\ loc' = loc
    /\ pc' = "pin_boilerplate"
    /\ UNCHANGED <<fmt, val, gh, pin, trk, events, config, entry, req, now, channels, db, result, reacji>>

\* lines 288-291: pins_add(timestamp=bp_message["ts"]), outside any try. Reading the
\* unassigned bp_message raises UnboundLocalError before the call is made; a failing
\* call raises SlackApiError out of create_incident.
PinBoilerplate ==
    /\ pc = "pin_boilerplate"
    /\ IF loc.bp_message = "unbound"
       THEN /\ Raise("UnboundLocalError", calls)
            /\ UNCHANGED faults
       ELSE \E ok \in BOOLEAN :
              /\ MayBe(ok)
              /\ Charge(ok)
              /\ LET c == Call("slack", "pins_add", "boilerplate", loc.id, ok)
                 IN  IF ok
                     THEN /\ calls' = Append(calls, c)
                          /\ pc' = "conference"
                          /\ UNCHANGED <<result, reacji>>
                     ELSE Raise("SlackApiError", Append(calls, c))
    /\ UNCHANGED <<fmt, val, gh, pin, trk, events, config, entry, req, now, loc, channels, db>>

\* lines 295-324: post the conference bridge message and pin it, in one try block
ConferenceMessage ==
    /\ pc = "conference"
    /\ \E ok \in BOOLEAN :
          /\ MayBe(ok)
          /\ Charge(ok)
          /\ LET c == Call("slack", "chat_postMessage", "conference", loc.id, ok)
             IN  IF ok
                 THEN /\ calls' = Append(calls, c)
                      /\ loc' = [loc EXCEPT !.conference_bridge_message = "ts_conf"]
                      /\ pc' = "pin_conference"
                 ELSE /\ calls' = calls \o <<c, LogRecord("error", "conference")>>
                      /\ loc' = loc
                      /\ pc' = "db_write"
    /\ UNCHANGED <<fmt, val, gh, pin, trk, events, config, entry, req, now, channels, db, result, reacji>>

PinConference ==
    /\ pc = "pin_conference"
    /\ \E ok \in BOOLEAN :
          /\ MayBe(ok)
          /\ Charge(ok)
          /\ LET c == Call("slack", "pins_add", "conference", loc.id, ok)
             IN  calls' = IF ok THEN Append(calls, c)
                          ELSE calls \o <<c, LogRecord("error", "conference")>>
    /\ pc' = "db_write"
    /\ UNCHANGED <<fmt, val, gh, pin, trk, events, config, entry, req, now, loc, channels, db, result, reacji>>

\* a variant of the stored record with another initial status
IncidentRecordOpen ==
    [incident_id |-> loc.channel_name, channel_id |-> loc.id, channel_name |-> loc.channel_name,
     status |-> "open", severity |-> req.severity,
     bp_message_ts |-> loc.bp_message, dig_message_ts |-> loc.digest_message,
     is_security_incident |-> req.is_security_incident,
     channel_description |-> req.incident_description,
     conference_bridge |-> loc.conference_bridge,
     created_at |-> "", sp_message_ts |-> ""]

\* the record db_write_incident stores
IncidentRecord ==
    [incident_id |-> loc.channel_name, channel_id |-> loc.id, channel_name |-> loc.channel_name,
     status |-> "investigating", severity |-> req.severity,
     bp_message_ts |-> loc.bp_message, dig_message_ts |-> loc.digest_message,
     is_security_incident |-> req.is_security_incident,
     channel_description |-> req.incident_description,
     conference_bridge |-> loc.conference_bridge,
     created_at |-> "", sp_message_ts |-> ""]

\* a variant of the persistence step whose failure is not caught
WriteIncidentRaising ==
    /\ pc = "db_write"
    /\ IF loc.digest_message = "None"
       THEN /\ Raise("TypeError", calls)
            /\ UNCHANGED <<db, faults>>
       ELSE \E ok \in BOOLEAN :
              /\ MayBe(ok)
              /\ Charge(ok)
              /\ LET c == Call("db", "db_write_incident", "incident", loc.channel_name, ok)
                 IN  IF ok
                     THEN /\ calls' = Append(calls, c)
                          /\ db' = db \cup {IncidentRecord}
                          /\ pc' = "db_created_at"
                          /\ UNCHANGED <<result, reacji>>
                     ELSE /\ Raise("Exception", Append(calls, c))
                          /\ db' = db
    /\ UNCHANGED <<fmt, val, gh, pin, trk, events, config, entry, req, now, loc, channels>>

\* lines 333-351: db_write_incident inside try / except Exception. The arguments are
\* evaluated first: digest_message["ts"] with digest_message = None raises TypeError,
\* which the handler catches and logs; the write is then never issued.
WriteIncident ==
    /\ pc = "db_write"
    /\ IF loc.digest_message = "None"
       THEN /\ calls' = Append(calls, LogRecord("fatal", "db_write"))
            /\ UNCHANGED <<db, faults>>
       ELSE \E ok \in BOOLEAN :
              /\ MayBe(ok)
              /\ Charge(ok)
              /\ LET c == Call("db", "db_write_incident", "incident", loc.channel_name, ok)
                 IN  IF ok
                     THEN /\ calls' = Append(calls, c)
                          /\ db' = db \cup {IncidentRecord}
                     ELSE /\ calls' = calls \o <<c, LogRecord("fatal", "db_write")>>
                          /\ db' = db
    /\ pc' = "db_created_at"
    /\ UNCHANGED <<fmt, val, gh, pin, trk, events, config, entry, req, now, loc, channels, result, reacji>>

\* an update of one column of the record keyed by incident_id (no row: no change)
UpdateColumn(records, id, col, value) ==
    {IF r.incident_id = id THEN [r EXCEPT ![col] = value] ELSE r : r \in records}

\* a variant in which the optional features are scheduled and not awaited
UpdateCreatedAtDetached ==
    /\ pc = "db_created_at"
    /\ \E ok \in BOOLEAN :
          /\ MayBe(ok)
          /\ Charge(ok)
          /\ LET c == Call("db", "db_update_incident_created_at_col", "created_at", loc.channel_name, ok)
             IN  IF ok
                 THEN /\ calls' = Append(calls, c)
                      /\ db' = UpdateColumn(db, loc.channel_name, "created_at", "timestamp")
                 ELSE /\ calls' = calls \o <<c, LogRecord("fatal", "created_at")>>
                      /\ db' = db
    /\ pc' = "invite_user"
    /\ UNCHANGED <<fmt, val, gh, pin, trk, events, config, entry, req, now, loc, channels, result, reacji>>

\* lines 353-361: db_update_incident_created_at_col
UpdateCreatedAt ==
    /\ pc = "db_created_at"
    /\ \E ok \in BOOLEAN :
          /\ MayBe(ok)
          /\ Charge(ok)
          /\ LET c == Call("db", "db_update_incident_created_at_col", "created_at", loc.channel_name, ok)
             IN  IF ok
                 THEN /\ calls' = Append(calls, c)
                      /\ db' = UpdateColumn(db, loc.channel_name, "created_at", "timestamp")
                 ELSE /\ calls' = calls \o <<c, LogRecord("fatal", "created_at")>>
                      /\ db' = db
    /\ pc' = "opt_invite"
    /\ UNCHANGED <<fmt, val, gh, pin, trk, events, config, entry, req, now, loc, channels, result, reacji>>

----------------------------------------------------------------------------
(* handle_incident_optional_features, run to completion by asyncio.run (lines 363-367) *)

\* Lines 397-419, one iteration of the loop up to the end of the first try block:
\* look the group up in the workspace directory and list its members. Both the failed
\* lookup (IndexError) and a failed usergroups_users_list are caught and logged, and
\* required_participants_group_members keeps whatever it held before.
ResolveGroup ==
    /\ pc = "opt_invite"
    /\ IF ~config.auto_invite \/ loc.gi > Len(InviteGroups)
       THEN /\ pc' = "opt_statuspage"
            /\ UNCHANGED <<loc, calls, faults>>
       ELSE LET gr == InviteGroups[loc.gi] IN
            IF config.usergroups = {}
            THEN /\ calls' = Append(calls, LogRecord("error", "group_not_found"))
                 /\ loc' = [loc EXCEPT !.gi = @ + 1]
                 /\ pc' = "opt_invite"
                 /\ UNCHANGED faults
            ELSE IF gr \notin config.usergroups
            THEN /\ calls' = Append(calls, LogRecord("error", "group_format"))
                 /\ pc' = "opt_invite_send"
                 /\ UNCHANGED <<loc, faults>>
            ELSE \E ok \in BOOLEAN :
                   /\ MayBe(ok)
                   /\ Charge(ok)
                   /\ LET c == CallWith("slack", "usergroups_users_list", "group", gr, loc.id, ok)
                      IN  IF ok
                          THEN /\ calls' = Append(calls, c)
                               /\ loc' = [loc EXCEPT !.members = gr]
                          ELSE /\ calls' = calls \o <<c, LogRecord("error", "group_format")>>
                               /\ loc' = loc
                   /\ pc' = "opt_invite_send"
    /\ UNCHANGED <<fmt, val, gh, pin, trk, events, config, entry, req, now, channels, db, result, reacji>>

\* Lines 420-432, the second try block of the iteration: invite the members held in
\* required_participants_group_members and write the audit entry for the loop's group.
\* Only SlackApiError is caught: reading the unassigned member list raises
\* UnboundLocalError out of the run. The call's `what` is the group whose members are
\* invited, its `arg` the group the iteration is about.
InviteGroup ==
    /\ pc = "opt_invite_send"
    /\ LET gr == InviteGroups[loc.gi] IN
       IF loc.members = "unbound"
       THEN /\ Raise("UnboundLocalError", calls)
            /\ UNCHANGED <<loc, faults>>
       ELSE \E ok \in BOOLEAN :
              /\ MayBe(ok)
              /\ Charge(ok)
              /\ LET c == CallWith("slack", "conversations_invite", loc.members, gr, loc.id, ok)
                 IN  calls' = IF ok
                              THEN calls \o <<c, CallWith("audit", "write", "Group invited", gr,
                                                          loc.channel_name, TRUE)>>
                              ELSE calls \o <<c, LogRecord("error", "group_invite")>>
              /\ loc' = [loc EXCEPT !.gi = @ + 1]
              /\ pc' = "opt_invite"
              /\ UNCHANGED <<result, reacji>>
    /\ UNCHANGED <<fmt, val, gh, pin, trk, events, config, entry, req, now, channels, db>>

\* a variant of the Statuspage prompt that does not read its configuration gate
StatuspagePromptUngated ==
    /\ pc = "opt_statuspage"
    /\ \E ok \in BOOLEAN :
          /\ MayBe(ok)
          /\ Charge(ok)
          /\ LET c == Call("slack", "chat_postMessage", "statuspage", loc.id, ok)
             IN  IF ok
                 THEN /\ calls' = Append(calls, c)
                      /\ loc' = [loc EXCEPT !.sp_starter_message = "ts_sp"]
                      /\ pc' = "opt_statuspage_pin"
                 ELSE /\ calls' = calls \o <<c, LogRecord("error", "statuspage")>>
                      /\ loc' = loc
                      /\ pc' = "opt_statuspage_ts"
    /\ UNCHANGED <<fmt, val, gh, pin, trk, events, config, entry, req, now, channels, db, result, reacji>>

\* lines 437-453: post the Statuspage prompt; the pin follows in the same try block
StatuspagePrompt ==
    /\ pc = "opt_statuspage"
    /\ IF ~config.statuspage
       THEN /\ pc' = "opt_linkback"
            /\ UNCHANGED <<loc, calls, faults>>
       ELSE \E ok \in BOOLEAN :
              /\ MayBe(ok)
              /\ Charge(ok)
              /\ LET c == Call("slack", "chat_postMessage", "statuspage", loc.id, ok)
                 IN  IF ok
                     THEN /\ calls' = Append(calls, c)
                          /\ loc' = [loc EXCEPT !.sp_starter_message = "ts_sp"]
                          /\ pc' = "opt_statuspage_pin"
                     ELSE /\ calls' = calls \o <<c, LogRecord("error", "statuspage")>>
                          /\ loc' = loc
                          /\ pc' = "opt_statuspage_ts"
    /\ UNCHANGED <<fmt, val, gh, pin, trk, events, config, entry, req, now, channels, db, result, reacji>>

StatuspagePin ==
    /\ pc = "opt_statuspage_pin"
    /\ \E ok \in BOOLEAN :
          /\ MayBe(ok)
          /\ Charge(ok)
          /\ LET c == Call("slack", "pins_add", "statuspage", loc.id, ok)
             IN  calls' = IF ok THEN Append(calls, c)
                          ELSE calls \o <<c, LogRecord("error", "statuspage")>>
    /\ pc' = "opt_statuspage_ts"
    /\ UNCHANGED <<fmt, val, gh, pin, trk, events, config, entry, req, now, loc, channels, db, result, reacji>>

\* a variant of the timestamp patch that is issued whether or not a prompt was posted
StatuspageTimestampUnchecked ==
    /\ pc = "opt_statuspage_ts"
    /\ \E ok \in BOOLEAN :
          /\ MayBe(ok)
          /\ Charge(ok)
          /\ LET c == Call("db", "db_update_incident_sp_ts_col", "sp_message_ts", loc.channel_name, ok)
             IN  IF ok
                 THEN /\ calls' = Append(calls, c)
                      /\ db' = UpdateColumn(db, loc.channel_name, "sp_message_ts", loc.sp_starter_message)
                 ELSE /\ calls' = calls \o <<c, LogRecord("fatal", "statuspage_ts")>>
                      /\ db' = db
    /\ pc' = "opt_linkback"
    /\ UNCHANGED <<fmt, val, gh, pin, trk, events, config, entry, req, now, loc, channels, result, reacji>>

\* lines 459-465: db_update_incident_sp_ts_col(ts=sp_starter_message["ts"]) inside
\* try / except Exception; an unassigned sp_starter_message raises UnboundLocalError
\* there, which is caught and logged, and no update is issued
StatuspageTimestamp ==
    /\ pc = "opt_statuspage_ts"
    /\ IF loc.sp_starter_message = "unbound"
       THEN /\ calls' = Append(calls, LogRecord("fatal", "statuspage_ts"))
            /\ UNCHANGED <<db, faults>>
       ELSE \E ok \in BOOLEAN :
              /\ MayBe(ok)
              /\ Charge(ok)
              /\ LET c == Call("db", "db_update_incident_sp_ts_col", "sp_message_ts", loc.channel_name, ok)
                 IN  IF ok
                     THEN /\ calls' = Append(calls, c)
                          /\ db' = UpdateColumn(db, loc.channel_name, "sp_message_ts", loc.sp_starter_message)
                     ELSE /\ calls' = calls \o <<c, LogRecord("fatal", "statuspage_ts")>>
                          /\ db' = db
    /\ pc' = "opt_linkback"
    /\ UNCHANGED <<fmt, val, gh, pin, trk, events, config, entry, req, now, loc, channels, result, reacji>>

\* Lines 470-525. The condition reads options.create_from_reaction only when `internal`
\* is true; a missing option then raises AttributeError. Both posts have their own try.
LinkBack ==
    /\ pc = "opt_linkback"
    /\ IF ~internal
       THEN /\ pc' = "opt_page"
            /\ UNCHANGED <<calls, faults, result, reacji>>
       ELSE IF config.create_from_reaction = "absent"
       THEN /\ Raise("AttributeError", calls)
            /\ UNCHANGED faults
       ELSE IF config.create_from_reaction # "enabled"
       THEN /\ pc' = "opt_page"
            /\ UNCHANGED <<calls, faults, result, reacji>>
       ELSE \E ok1, ok2 \in BOOLEAN :
              /\ faults + (IF ok1 THEN 0 ELSE 1) + (IF ok2 THEN 0 ELSE 1) <= MaxFaults
              /\ faults' = faults + (IF ok1 THEN 0 ELSE 1) + (IF ok2 THEN 0 ELSE 1)
              /\ LET c1 == Call("slack", "chat_postMessage", "linkback", loc.id, ok1)
                     c2 == CallWith("slack", "chat_postMessage", "linkback_origin", req.channel, loc.id, ok2)
                 IN  calls' = calls \o <<c1>>
                                \o (IF ok1 THEN <<>> ELSE <<LogRecord("error", "linkback")>>)
                                \o <<c2>>
                                \o (IF ok2 THEN <<>> ELSE <<LogRecord("error", "linkback_origin")>>)
              /\ pc' = "opt_page"
              /\ UNCHANGED <<result, reacji>>
    /\ UNCHANGED <<fmt, val, gh, pin, trk, events, config, entry, req, now, loc, channels, db>>

\* Lines 529-548, one iteration of the loop: the audit entry is written first, then
\* pd_api.page is called with no guard around it.
PageTarget ==
    /\ pc = "opt_page"
    /\ IF ~config.pagerduty \/ loc.ti > Len(config.auto_page_targets)
       THEN /\ pc' = "invite_user"
            /\ UNCHANGED <<loc, calls, faults, result, reacji>>
       ELSE LET target == config.auto_page_targets[loc.ti]
                a == CallWith("audit", "write", "Created PagerDuty incident", target.team,
                              loc.channel_name, TRUE)
            IN  \E ok \in BOOLEAN :
                  /\ MayBe(ok)
                  /\ Charge(ok)
                  /\ LET c == CallWith("pagerduty", "page", target.ep, target.team, loc.id, ok)
                     IN  IF ok
                         THEN /\ calls' = calls \o <<a, c>>
                              /\ loc' = [loc EXCEPT !.ti = @ + 1]
                              /\ pc' = "opt_page"
                              /\ UNCHANGED <<result, reacji>>
                         ELSE /\ Raise("Exception", calls \o <<a, c>>)
                              /\ loc' = loc
    /\ UNCHANGED <<fmt, val, gh, pin, trk, events, config, entry, req, now, channels, db>>

----------------------------------------------------------------------------
(* create_incident, lines 369-380 *)

\* invite_user_to_channel(created_channel_details["id"], user)
InviteUser ==
    /\ pc = "invite_user"
    /\ \E ok \in BOOLEAN :
          /\ MayBe(ok)
          /\ Charge(ok)
          /\ calls' = Append(calls, CallWith("slack", "invite_user_to_channel", "user", req.user, loc.id, ok))
    /\ pc' = "audit"
    /\ UNCHANGED <<fmt, val, gh, pin, trk, events, config, entry, req, now, loc, channels, db, result, reacji>>

\* log.write(event="Incident created.") and the returned confirmation string
Finish ==
    /\ pc = "audit"
    /\ calls' = Append(calls, CallWith("audit", "write", "Incident created.", req.user,
                                       loc.channel_name, TRUE))
    /\ Return("I've created the incident channel", loc.id)
    /\ UNCHANGED <<fmt, val, gh, pin, trk, events, config, entry, req, now, loc, channels, db, faults>>

----------------------------------------------------------------------------
(* reaction_added and make_reacji_incident, handler.py lines 196-234 and 314-329 *)

Emojis == {Reacji, "thumbsup"}

\* the guard of make_reacji_incident as written: `enabled or reaction != reacji`
ReacjiGuardReturnsFalse(emoji) ==
    config.create_from_reaction = "enabled" \/ emoji # Reacji

\* reaction_added up to the guard of make_reacji_incident (lines 200-203). With the
\* option missing, the second operand calls .get on None: AttributeError.
ReactionAdded ==
    /\ pc = "idle"
    /\ entry' = "reaction_added"
    /\ \E emoji \in Emojis, t \in FlowTimes :
          /\ now' = t
          /\ IF config.create_from_reaction = "absent"
             THEN /\ reacji' = "raise"
                  /\ pc' = "done"
             ELSE IF ReacjiGuardReturnsFalse(emoji)
             THEN /\ reacji' = "False"
                  /\ pc' = "done"
             ELSE /\ reacji' = reacji
                  /\ pc' = "history"
          /\ loc' = [loc EXCEPT !.reaction = emoji]
    /\ UNCHANGED <<fmt, val, gh, pin, trk, events, config, req, calls, channels, db, result, faults>>

\* lines 206-231: read the message reacted to, build the request, call create_incident
ReactionHistory ==
    /\ pc = "history"
    /\ \E ok \in BOOLEAN :
          /\ MayBe(ok)
          /\ Charge(ok)
          /\ LET c == Call("slack", "conversations_history", "reacted_message", <<>>, ok)
             IN  IF ok
                 THEN /\ calls' = Append(calls, c)
                      /\ req' = [channel |-> "C7", incident_description |-> AutoDescription,
                                 severity |-> "sev4", user |-> "internal_auto_create",
                                 created_from_web |-> FALSE, is_security_incident |-> FALSE,
                                 private_channel |-> FALSE,
                                 message_reacted_to_content |-> "text",
                                 original_message_timestamp |-> "1682330700.000100"]
                      /\ pc' = "precheck"
                      /\ reacji' = reacji
                 ELSE /\ calls' = calls \o <<c, LogRecord("error", "retrieve_message")>>
                      /\ req' = req
                      /\ pc' = "done"
                      /\ reacji' = "True"
    /\ UNCHANGED <<fmt, val, gh, pin, trk, events, config, entry, now, loc, channels, db, result>>

----------------------------------------------------------------------------
(* The workflow specification *)

Init ==
    /\ fmt = NoFmt
    /\ val = NoVal
    /\ gh = NoGh
    /\ pin = NoPin
    /\ trk = NoTrk
    /\ FlowInit

Next ==
    \/ CreateIncident
    \/ ReactionAdded
    \/ ReactionHistory
    \/ Precheck
    \/ CreateChannel
    \/ DigestNotification
    \/ SetTopic
    \/ BoilerplateMessage
    \/ PinBoilerplate
    \/ ConferenceMessage
    \/ PinConference
    \/ WriteIncident
    \/ UpdateCreatedAt
    \/ ResolveGroup
    \/ InviteGroup
    \/ StatuspagePrompt
    \/ StatuspagePin
    \/ StatuspageTimestamp
    \/ LinkBack
    \/ PageTarget
    \/ InviteUser
    \/ Finish

Spec == Init /\ [][Next]_vars

----------------------------------------------------------------------------
(* The specification of several events handled one after the other *)

\* most events handled in one behaviour
MaxEvents == 2

\* two configurations: every optional feature switched off, and every one switched on
EventConfigs ==
    {c \in Configs :
        /\ c.severities = AllSeverities
        /\ c.create_from_reaction = "disabled"
        /\ c.usergroups = {"g1", "g2"}
        /\ c.auto_invite = c.statuspage
        /\ c.statuspage = c.pagerduty
        /\ c.pagerduty = (c.auto_page_targets # <<>>)}

InitEvents ==
    /\ Init
    /\ config \in EventConfigs

\* The handler of one event has ended and the platform delivers the next event: the
\* handler's variables start afresh, the platform's channels and the database stay.
NextEvent ==
    /\ pc = "done"
    /\ events < MaxEvents
    /\ events' = events + 1
    /\ pc' = "idle"
    /\ entry' = "none"
    /\ req' = NoRequest
    /\ now' = CHOOSE t \in FlowTimes : TRUE
    /\ loc' = NoLoc
    /\ calls' = <<>>
    /\ result' = [kind |-> "none", value |-> "", channel |-> <<>>]
    /\ reacji' = "none"
    /\ faults' = 0
    /\ UNCHANGED <<fmt, val, gh, pin, trk, config, channels, db>>

NextEvents ==
    \/ Next
    \/ NextEvent

SpecEvents == InitEvents /\ [][NextEvents]_vars

----------------------------------------------------------------------------
(* GithubIssue, backend/bot/github/issue.py: the constructor and new() *)

\* most new() calls in one behaviour
MaxNewCalls == 3

\* A template is a sequence of pieces: literal text, a named replacement field {name},
\* or a positional replacement field {}.
Text(t) == [kind |-> "text", name |-> t]
Field(n) == [kind |-> "field", name |-> n]
Positional == [kind |-> "index", name |-> "0"]

\* the keyword arguments of the two format calls (lines 67-69 and 75-86)
TitleArgs ==
    [date |-> "2023-04-24", incident_title |-> "db outage"]

BodyArgs ==
    [description |-> "disk full", incident_start |-> "2023-04-24 10:05",
     incident_detection |-> "2023-04-24 10:07", regions |-> "eu us",
     ingest_impacted |-> "True", notifications_impacted |-> "False", owner |-> "U1",
     slack_channel_name |-> "inc-2023424105-db-outage", slack_channel_id |-> "C09",
     detection_source |-> "manual"]

\* the index of the first replacement field str.format cannot fill, 0 when there is none
FirstUnfilled(template, args) ==
    LET bad == {i \in DOMAIN template :
                   \/ template[i].kind = "index"
                   \/ template[i].kind = "field" /\ template[i].name \notin DOMAIN args}
    IN  IF bad = {} THEN 0 ELSE CHOOSE i \in bad : \A j \in bad : i <= j

\* a variant of str.format that leaves an unknown field in place
FormatLenient(template, args) ==
    [raised |-> "",
     text |-> [i \in DOMAIN template |->
                  IF template[i].kind = "field" /\ template[i].name \in DOMAIN args
                  THEN args[template[i].name] ELSE template[i].name]]

\* str.format(**args): KeyError for an unknown field name, IndexError for a positional
\* field (no positional argument is passed), otherwise the text with the fields filled
Format(template, args) ==
    LET k == FirstUnfilled(template, args)
    IN  IF k = 0
        THEN [raised |-> "",
              text |-> [i \in DOMAIN template |->
                           IF template[i].kind = "field" THEN args[template[i].name]
                           ELSE template[i].name]]
        ELSE [raised |-> IF template[k].kind = "index" THEN "IndexError" ELSE "KeyError",
              text |-> <<>>]

TitleTemplates ==
    {<<Text("RCA "), Field("date"), Text(" "), Field("incident_title")>>,
     <<Field("incident_title"), Text(" by "), Field("owner")>>,
     <<Text("RCA "), Positional>>}

BodyTemplates ==
    {<<Field("description"), Text(" in "), Field("regions"), Text(" #"), Field("slack_channel_id")>>,
     <<Field("description"), Text(" sev "), Field("severity")>>,
     <<Positional, Field("owner")>>}

\* TemplateData as from_repo_path returns it
Templates == [title_template : TitleTemplates, body_template : BodyTemplates]

\* the html_url of the n-th issue of the repository
IssueUrl(n) == <<"u", "r", "l">> \o IntToStr(n)

\* one new() call that has not run
NoNewCall ==
    [ops |-> <<>>, kind |-> "none", value |-> "", issue_before |-> 0, rca_before |-> <<>>,
     issue_after |-> 0, rca_after |-> <<>>]

\* rca: the issue link stored in the incident record; issue: self.issue, 0 for None;
\* repo: the issues of the repository; last: the latest new() call
InitGithub ==
    /\ gh \in [pc : {"start"}, template : Templates, rca : {<<>>, IssueUrl(7)}, issue : {0},
               repo : {<<>>}, last : {NoNewCall}, news : {0}]
    /\ fmt = NoFmt
    /\ val = NoVal
    /\ pin = NoPin
    /\ trk = NoTrk
    /\ config = CHOOSE c \in Configs : TRUE
    /\ pc = "idle"
    /\ entry = "none"
    /\ req = NoRequest
    /\ now = CHOOSE t \in FlowTimes : TRUE
    /\ loc = NoLoc
    /\ calls = <<>>
    /\ channels = {}
    /\ db = {}
    /\ result = [kind |-> "none", value |-> "", channel |-> <<>>]
    /\ reacji = "none"
    /\ faults = 0
    /\ events = 1

\* GithubIssue(incident), lines 38-47, with the incident record read from the database.
\* With a stored link the constructor calls self.api.get_issue_by_link, which GithubApi
\* (api.py lines 34-62) does not define: AttributeError, and no object is built.
GithubIssueInit ==
    /\ gh.pc \in {"start", "built", "failed"}
    /\ gh.news < MaxNewCalls
    /\ gh' = IF gh.rca # <<>>
             THEN [gh EXCEPT !.pc = "failed", !.issue = 0]
             ELSE [gh EXCEPT !.pc = "built", !.issue = 0]
    /\ UNCHANGED <<fmt, val, pin, trk, flowVars>>

\* a variant of the guard of new() that never finds an issue
HasIssueNever(issue) == FALSE

\* line 59: `if self.issue:`
HasIssue(issue) == issue # 0

\* new(), lines 59-102, as one call: the template fetch, create_issue and the database
\* update each succeed or raise. The result is the object and database after the call,
\* with the call's record in `last`.
AfterNew(g, fetchOk, createOk, updateOk) ==
    LET title == Format(g.template.title_template, TitleArgs)
        body == Format(g.template.body_template, BodyArgs)
        n == Len(g.repo) + 1
        Ended(h, ops, kind, value) ==
            [h EXCEPT !.news = @ + 1,
                      !.last = [ops |-> ops, kind |-> kind, value |-> value,
                                issue_before |-> g.issue, rca_before |-> g.rca,
                                issue_after |-> h.issue, rca_after |-> h.rca]]
        created == [g EXCEPT !.repo = Append(@, [title |-> title.text, body |-> body.text]),
                             !.issue = n]
    IN  IF HasIssue(g.issue)
        THEN Ended(g, <<"log_error">>, "return", "None")
        ELSE IF ~fetchOk
        THEN Ended(g, <<"get_contents">>, "raise", "GithubException")
        ELSE IF title.raised # ""
        THEN Ended(g, <<"get_contents">>, "raise",
                   IF title.raised = "KeyError" THEN "RuntimeError" ELSE title.raised)
        ELSE IF body.raised # ""
        THEN Ended(g, <<"get_contents">>, "raise",
                   IF body.raised = "KeyError" THEN "RuntimeError" ELSE body.raised)
        ELSE IF ~createOk
        THEN Ended(g, <<"get_contents", "create_issue">>, "raise", "RuntimeError")
        ELSE IF updateOk
        THEN Ended([created EXCEPT !.rca = IssueUrl(n)],
                   <<"get_contents", "create_issue", "db_update_incident_rca_col">>,
                   "return", "issue")
        ELSE Ended(created,
                   <<"get_contents", "create_issue", "db_update_incident_rca_col", "log_error">>,
                   "return", "issue")

GithubIssueNew ==
    /\ gh.pc = "built"
    /\ gh.news < MaxNewCalls
    /\ \E fetchOk, createOk, updateOk \in BOOLEAN :
          gh' = AfterNew(gh, fetchOk, createOk, updateOk)
    /\ UNCHANGED <<fmt, val, pin, trk, flowVars>>

NextGithub ==
    \/ GithubIssueInit
    \/ GithubIssueNew

SpecGithub == InitGithub /\ [][NextGithub]_vars

----------------------------------------------------------------------------
(* Pinned content: one pin_added event, handled by pin_added and MessageContent of *)
(* backend/bot/slack/handler.py *)

\* most files attached to a pinned message
MaxFiles == 2

\* `sub in s` on strings
Infix(sub, s) ==
    \E i \in 0..(Len(s) - Len(sub)) : SubSeq(s, i + 1, i + Len(sub)) = sub

ImageWord == <<"i","m","a","g","e">>

Mimetypes ==
    {<<"i","m","a","g","e","/","p","n","g">>,
     <<"t","e","x","t","/","p","l","a","i","n">>,
     <<"a","p","p","l","i","c","a","t","i","o","n","/","p","d","f">>}

\* the incident table as db_read_incident(channel_id=...) reads it
PinIncidents ==
    {[channel_id |-> "C09", incident_id |-> "inc-a", rca |-> <<>>],
     [channel_id |-> "C010", incident_id |-> "inc-b", rca |-> IssueUrl(7)]}

PinChannels == {"C09", "C010", "C1"}

\* message["files"]: each file with its name and mimetype
FileLists ==
    UNION {[1..n -> Mimetypes] : n \in 0..MaxFiles}

\* event["item"] of a pin_added event; a pinned file carries no message
PinEvents ==
    {[channel |-> c, type |-> "message", text |-> "m1", files |-> fs] :
        c \in PinChannels, fs \in FileLists}
    \cup {[channel |-> c, type |-> "file", text |-> "", files |-> <<>>] : c \in PinChannels}

NoPinCall ==
    [event |-> [channel |-> "", type |-> "", text |-> "", files |-> <<>>],
     incident_id |-> "", files |-> <<>>, posts |-> <<>>, writes |-> <<>>,
     comment |-> "none", kind |-> "none", value |-> ""]

\* github: config.active.integrations.get("github"); last: what the pin_added call did
InitPins ==
    /\ pin \in [pc : {"ready"}, github : BOOLEAN, last : {NoPinCall}]
    /\ fmt = NoFmt
    /\ val = NoVal
    /\ gh = NoGh
    /\ trk = NoTrk
    /\ config = CHOOSE c \in Configs : TRUE
    /\ pc = "idle"
    /\ entry = "none"
    /\ req = NoRequest
    /\ now = CHOOSE t \in FlowTimes : TRUE
    /\ loc = NoLoc
    /\ calls = <<>>
    /\ channels = {}
    /\ db = {}
    /\ result = [kind |-> "none", value |-> "", channel |-> <<>>]
    /\ reacji = "none"
    /\ faults = 0
    /\ events = 1

\* MessageContent.__init__, lines 253-274: self.files holds, in order, the files whose
\* download did not raise (`downloaded` is the set of their positions)
MessageFiles(files, downloaded) ==
    LET RECURSIVE Build(_)
        Build(i) ==
            IF i > Len(files) THEN <<>>
            ELSE (IF i \in downloaded
                  THEN <<[name |-> IntToStr(i), mimetype |-> files[i]]>>
                  ELSE <<>>) \o Build(i + 1)
    IN  Build(1)

\* "image" in f.mimetype
IsImage(f) == Infix(ImageWord, f.mimetype)

\* the mutant reports once per non-image file
ReportsPerFile(non_images) == Len(non_images)

\* `if non_images: error_reporter(...)`, lines 282-284: the number of reporter calls
Reports(non_images) == IF Len(non_images) > 0 THEN 1 ELSE 0

\* MessageContent.store_to_db, lines 281-304. sayOk: the reporter's post returns;
\* written: how many write_content calls return before one raises. The result holds the
\* reporter's posts, the content rows written and how the call ended.
store_to_db(files, text, incident_id, channel, sayOk, written) ==
    LET non_images == SelectSeq(files, LAMBDA f : ~IsImage(f))
        images == SelectSeq(files, LAMBDA f : IsImage(f))
        posts == [i \in 1..Reports(non_images) |->
                    [channel |-> channel, non_images |-> Len(non_images), ok |-> sayOk]]
        all == [i \in 1..Len(images) |->
                    [incident_id |-> incident_id, kind |-> "image", title |-> images[i].name,
                     mimetype |-> images[i].mimetype]]
               \o <<[incident_id |-> incident_id, kind |-> "text", title |-> text,
                     mimetype |-> <<>>]>>
    IN  IF Len(posts) > 0 /\ ~sayOk
        THEN [posts |-> posts, writes |-> <<>>, kind |-> "raise", value |-> "SlackApiError"]
        ELSE IF written < Len(all)
        THEN [posts |-> posts, writes |-> SubSeq(all, 1, written), kind |-> "raise",
              value |-> "DatabaseError"]
        ELSE [posts |-> posts, writes |-> all, kind |-> "return", value |-> ""]

\* MessageContent.as_github_issue_comment, lines 306-311: GithubIssue(incident) raises
\* AttributeError for a record with a stored link; without one self.issue is None and
\* create_comment raises RuntimeError, which is caught and logged
GithubComment(incident) ==
    IF incident.rca # <<>>
    THEN [comment |-> "none", kind |-> "raise", value |-> "AttributeError"]
    ELSE [comment |-> "logged", kind |-> "return", value |-> ""]

\* the mutant takes every pinned item for a message
IsMessageItemAlways(event) == TRUE

\* line 432, `if event["item"]["type"] != "message": return`, negated
IsMessageItem(event) == event.type = "message"

\* pin_added, lines 420-439, as one call. readOk: db_read_incident does not fail on its
\* own; userOk: get_user_name returns; the other outcomes as in store_to_db.
AfterPin(p, event, readOk, userOk, downloaded, sayOk, written) ==
    LET found == {r \in PinIncidents : r.channel_id = event.channel}
        call == [NoPinCall EXCEPT !.event = event]
        Ended(c) == [p EXCEPT !.pc = "done", !.last = c]
    IN  IF found = {} \/ ~readOk
        THEN Ended([call EXCEPT !.kind = "return"])
        ELSE LET incident == CHOOSE r \in found : TRUE
                 here == [call EXCEPT !.incident_id = incident.incident_id]
             IN  IF ~IsMessageItem(event)
                 THEN Ended([here EXCEPT !.kind = "return"])
                 ELSE IF ~userOk
                 THEN Ended([here EXCEPT !.kind = "raise", !.value = "SlackApiError"])
                 ELSE LET files == MessageFiles(event.files, downloaded)
                          s == store_to_db(files, event.text, incident.incident_id,
                                           event.channel, sayOk, written)
                          stored == [here EXCEPT !.files = files, !.posts = s.posts,
                                                 !.writes = s.writes, !.kind = s.kind,
                                                 !.value = s.value]
                      IN  IF s.kind = "raise" \/ ~p.github
                          THEN Ended(stored)
                          ELSE LET g == GithubComment(incident)
                               IN  Ended([stored EXCEPT !.comment = g.comment,
                                                        !.kind = g.kind, !.value = g.value])

PinAdded ==
    /\ pin.pc = "ready"
    /\ \E event \in PinEvents, readOk, userOk, sayOk \in BOOLEAN :
          \E downloaded \in SUBSET (DOMAIN event.files), written \in 0..(Len(event.files) + 1) :
              pin' = AfterPin(pin, event, readOk, userOk, downloaded, sayOk, written)
    /\ UNCHANGED <<fmt, val, gh, trk, flowVars>>

NextPins == PinAdded

SpecPins == InitPins /\ [][NextPins]_vars

----------------------------------------------------------------------------
(* Digest-channel chatter: handle_message_events of backend/bot/slack/handler.py and *)
(* the module-level tracking object it shares between events *)

\* most message events delivered in one behaviour
MaxMessages == 9

\* the literal of `tracking.calls > 3`
chatter_threshold == 3

\* variables.digest_channel_id and another channel
DigestChannel == "CDIGEST"

MessageChannels == {DigestChannel, "C09"}

\* body["event"]: its channel, and whether it has the key "subtype"
MessageEvents == [channel : MessageChannels, has_subtype : BOOLEAN]

\* DigestMessageTracking (bot.slack.helpers), by the interface the handler uses: a
\* counter `calls`, incr() adding one, reset() setting it to zero, and set_message_ts()
\* keeping the timestamp of the help message; 0 stands for no timestamp
NewTracking == [calls |-> 0, message_ts |-> 0]

TrackingIncr(t) == [t EXCEPT !.calls = @ + 1]

TrackingReset(t) == [t EXCEPT !.calls = 0]

TrackingSetMessageTs(t, ts) == [t EXCEPT !.message_ts = ts]

\* the mutant acts on every message of the digest channel, subtype or not
QualifiesAnySubtype(event) == event.channel = DigestChannel

\* lines 447-453: the message is in the digest channel and has no subtype
Qualifies(event) == event.channel = DigestChannel /\ ~event.has_subtype

\* the mutant posts from the third message on
ExceedsThresholdEarly(n) == n >= chatter_threshold

\* line 455, `if tracking.calls > 3`
ExceedsThreshold(n) == n > chatter_threshold

NoMessageCall ==
    [event |-> [channel |-> "", has_subtype |-> FALSE], calls_before |-> 0, ts_before |-> 0,
     since_before |-> 0, api |-> <<>>, posted |-> "none", kind |-> "none", value |-> ""]

\* tracking: the shared object; helps: the help messages posted so far, the n-th one
\* carrying the timestamp n; counted: the qualifying messages counted so far; since:
\* those counted since the latest help message was posted; handled: the events
\* delivered so far; last: what the latest handler call did; h: the handlers that run
\* side by side
InitTrk ==
    [pc |-> "ready", tracking |-> NewTracking, helps |-> 0, counted |-> 0, since |-> 0,
     handled |-> 0, last |-> NoMessageCall, h |-> <<>>]

InitChatter ==
    /\ trk = InitTrk
    /\ fmt = NoFmt
    /\ val = NoVal
    /\ gh = NoGh
    /\ pin = NoPin
    /\ config = CHOOSE c \in Configs : TRUE
    /\ pc = "idle"
    /\ entry = "none"
    /\ req = NoRequest
    /\ now = CHOOSE t \in FlowTimes : TRUE
    /\ loc = NoLoc
    /\ calls = <<>>
    /\ channels = {}
    /\ db = {}
    /\ result = [kind |-> "none", value |-> "", channel |-> <<>>]
    /\ reacji = "none"
    /\ faults = 0
    /\ events = 1

\* the outcomes of conversations_history(oldest=ts, inclusive, limit=1) at line 503: the
\* help message just sent, a platform error, or a reply whose first message has no third
\* block, on which the indexing at lines 510-511 raises
HistoryOutcomes == {"sent", "error", "other"}

ApiCall(op, ok) == [op |-> op, ok |-> ok]

\* handle_message_events, lines 443-523, as one call
AfterMessage(t, event, postOk, history, updateOk) ==
    LET call == [NoMessageCall EXCEPT !.event = event, !.calls_before = t.tracking.calls,
                                      !.ts_before = t.tracking.message_ts,
                                      !.since_before = t.since]
        Ended(u, c) == [u EXCEPT !.last = c, !.handled = @ + 1]
    IN  IF ~Qualifies(event)
        THEN Ended(t, [call EXCEPT !.kind = "return"])
        ELSE LET counted == [t EXCEPT !.tracking = TrackingIncr(@), !.counted = @ + 1,
                                      !.since = @ + 1]
             IN  IF ~ExceedsThreshold(counted.tracking.calls)
                 THEN Ended(counted, [call EXCEPT !.kind = "return"])
                 ELSE IF ~postOk
                 THEN Ended(counted,
                            [call EXCEPT !.api = <<ApiCall("chat_postMessage", FALSE)>>,
                                         !.posted = "failed", !.kind = "return"])
                 ELSE LET ts == t.helps + 1
                          posted == [counted EXCEPT
                                        !.tracking = TrackingSetMessageTs(TrackingReset(@), ts),
                                        !.helps = ts, !.since = 0]
                          post == <<ApiCall("chat_postMessage", TRUE)>>
                      IN  IF history = "error"
                          THEN Ended(posted,
                                 [call EXCEPT !.api = post \o <<ApiCall("conversations_history", FALSE)>>,
                                              !.posted = "ok", !.kind = "return"])
                          ELSE IF history = "other"
                          THEN Ended(posted,
                                 [call EXCEPT !.api = post \o <<ApiCall("conversations_history", TRUE)>>,
                                              !.posted = "ok", !.kind = "raise",
                                              !.value = "IndexError"])
                          ELSE Ended(posted,
                                 [call EXCEPT !.api = post \o <<ApiCall("conversations_history", TRUE),
                                                                ApiCall("chat_update", updateOk)>>,
                                              !.posted = "ok", !.kind = "return"])

HandleMessageEvent ==
    /\ trk.pc = "ready"
    /\ trk.handled < MaxMessages
    /\ \E event \in MessageEvents, postOk, updateOk \in BOOLEAN, history \in HistoryOutcomes :
          trk' = AfterMessage(trk, event, postOk, history, updateOk)
    /\ UNCHANGED <<fmt, val, gh, pin, flowVars>>

NextChatter == HandleMessageEvent

SpecChatter == InitChatter /\ [][NextChatter]_vars

----------------------------------------------------------------------------
(* Digest-channel chatter with handlers dispatched side by side: the listeners of the *)
(* platform SDK run handle_message_events for distinct events on separate threads, all *)
(* of them using the one module-level tracking object (line 52), which no lock guards. *)
(* Each step below is one access to the shared object or one platform call. *)

\* handlers that may run at the same time
MaxHandlers == 2

\* most message events dispatched in one behaviour
MaxDispatched == 5

Handlers == 1..MaxHandlers

IdleHandler == [pc |-> "idle", ts |-> 0]

InitDispatch ==
    /\ trk = [InitTrk EXCEPT !.pc = "dispatch", !.h = [i \in Handlers |-> IdleHandler]]
    /\ fmt = NoFmt
    /\ val = NoVal
    /\ gh = NoGh
    /\ pin = NoPin
    /\ config = CHOOSE c \in Configs : TRUE
    /\ pc = "idle"
    /\ entry = "none"
    /\ req = NoRequest
    /\ now = CHOOSE t \in FlowTimes : TRUE
    /\ loc = NoLoc
    /\ calls = <<>>
    /\ channels = {}
    /\ db = {}
    /\ result = [kind |-> "none", value |-> "", channel |-> <<>>]
    /\ reacji = "none"
    /\ faults = 0
    /\ events = 1

\* handler i has moved to `to` and the shared state has become t
Moved(i, to, t) == [t EXCEPT !.h[i].pc = to]

\* a free thread takes the next message event; lines 447-453
Dispatch ==
    /\ trk.pc = "dispatch"
    /\ trk.handled < MaxDispatched
    /\ \E i \in Handlers, event \in MessageEvents :
          /\ trk.h[i].pc = "idle"
          /\ trk' = Moved(i, IF Qualifies(event) THEN "incr" ELSE "idle",
                          [trk EXCEPT !.handled = @ + 1])
    /\ UNCHANGED <<fmt, val, gh, pin, flowVars>>

\* line 454, tracking.incr()
Incr ==
    /\ trk.pc = "dispatch"
    /\ \E i \in Handlers :
          /\ trk.h[i].pc = "incr"
          /\ trk' = Moved(i, "check",
                          [trk EXCEPT !.tracking = TrackingIncr(@), !.counted = @ + 1,
                                      !.since = @ + 1])
    /\ UNCHANGED <<fmt, val, gh, pin, flowVars>>

\* line 455, `if tracking.calls > 3`
Check ==
    /\ trk.pc = "dispatch"
    /\ \E i \in Handlers :
          /\ trk.h[i].pc = "check"
          /\ trk' = Moved(i, IF ExceedsThreshold(trk.tracking.calls) THEN "post" ELSE "idle",
                          trk)
    /\ UNCHANGED <<fmt, val, gh, pin, flowVars>>

\* lines 457-499, chat_postMessage; on SlackApiError the except at line 521 logs
Post ==
    /\ trk.pc = "dispatch"
    /\ \E i \in Handlers, ok \in BOOLEAN :
          /\ trk.h[i].pc = "post"
          /\ trk' = IF ok
                    THEN Moved(i, "reset",
                               [trk EXCEPT !.helps = @ + 1, !.since = 0,
                                           !.h[i].ts = trk.helps + 1])
                    ELSE Moved(i, "idle", trk)
    /\ UNCHANGED <<fmt, val, gh, pin, flowVars>>

\* line 500, tracking.reset()
Reset ==
    /\ trk.pc = "dispatch"
    /\ \E i \in Handlers :
          /\ trk.h[i].pc = "reset"
          /\ trk' = Moved(i, "set_ts", [trk EXCEPT !.tracking = TrackingReset(@)])
    /\ UNCHANGED <<fmt, val, gh, pin, flowVars>>

\* line 501, tracking.set_message_ts(message_ts=result["message"]["ts"])
SetMessageTs ==
    /\ trk.pc = "dispatch"
    /\ \E i \in Handlers :
          /\ trk.h[i].pc = "set_ts"
          /\ trk' = Moved(i, "history",
                          [trk EXCEPT !.tracking = TrackingSetMessageTs(@, trk.h[i].ts)])
    /\ UNCHANGED <<fmt, val, gh, pin, flowVars>>

\* lines 503-511, conversations_history and the indexing of its reply
History ==
    /\ trk.pc = "dispatch"
    /\ \E i \in Handlers, history \in HistoryOutcomes :
          /\ trk.h[i].pc = "history"
          /\ trk' = Moved(i, IF history = "sent" THEN "update" ELSE "idle", trk)
    /\ UNCHANGED <<fmt, val, gh, pin, flowVars>>

\* lines 512-520, chat_update; its failure is logged
Update ==
    /\ trk.pc = "dispatch"
    /\ \E i \in Handlers :
          /\ trk.h[i].pc = "update"
          /\ trk' = Moved(i, "idle", trk)
    /\ UNCHANGED <<fmt, val, gh, pin, flowVars>>

NextDispatch ==
    \/ Dispatch
    \/ Incr
    \/ Check
    \/ Post
    \/ Reset
    \/ SetMessageTs
    \/ History
    \/ Update

SpecDispatch == InitDispatch /\ [][NextDispatch]_vars

----------------------------------------------------------------------------
(* The formatter specification: one application of __format_channel_name *)

InitFormat ==
    /\ fmt \in [description : Descriptions, now : Times, name : {<<>>}, done : {FALSE}]
    /\ val = NoVal
    /\ gh = NoGh
    /\ pin = NoPin
    /\ trk = NoTrk
    /\ config = CHOOSE c \in Configs : TRUE
    /\ pc = "idle"
    /\ entry = "none"
    /\ req = NoRequest
    /\ now = CHOOSE t \in FlowTimes : TRUE
    /\ loc = NoLoc
    /\ calls = <<>>
    /\ channels = {}
    /\ db = {}
    /\ result = [kind |-> "none", value |-> "", channel |-> <<>>]
    /\ reacji = "none"
    /\ faults = 0
    /\ events = 1

FormatChannelName ==
    /\ ~fmt.done
    /\ fmt' = [fmt EXCEPT !.name = format_channel_name(fmt.description, fmt.now), !.done = TRUE]
    /\ UNCHANGED <<val, gh, pin, trk, flowVars>>

NextFormat == FormatChannelName

SpecFormat == InitFormat /\ [][NextFormat]_vars

----------------------------------------------------------------------------
(* The validation specification: one application of RequestParameters.validate *)

InitValidate ==
    /\ val \in [request : RawRequests, severities : SeverityConfigs,
                errors : {{}}, raised : {""}, done : {FALSE}]
    /\ fmt = NoFmt
    /\ gh = NoGh
    /\ pin = NoPin
    /\ trk = NoTrk
    /\ config = CHOOSE c \in Configs : TRUE
    /\ pc = "idle"
    /\ entry = "none"
    /\ req = NoRequest
    /\ now = CHOOSE t \in FlowTimes : TRUE
    /\ loc = NoLoc
    /\ calls = <<>>
    /\ channels = {}
    /\ db = {}
    /\ result = [kind |-> "none", value |-> "", channel |-> <<>>]
    /\ reacji = "none"
    /\ faults = 0
    /\ events = 1

\* lines 114-118: run the validator, raise ConfigurationError when it reports errors
Validate ==
    /\ ~val.done
    /\ LET errs == ValidationErrors(val.request, val.severities)
       IN  val' = [val EXCEPT !.errors = errs,
                              !.raised = IF errs # {} THEN "ConfigurationError" ELSE "",
                              !.done = TRUE]
    /\ UNCHANGED <<fmt, gh, pin, trk, flowVars>>

NextValidate == Validate

SpecValidate == InitValidate /\ [][NextValidate]_vars

----------------------------------------------------------------------------
(* Vocabulary of the properties *)

\* create_incident has been entered with the request in req
CreateIncidentCalled ==
    \/ entry = "create_incident"
    \/ entry = "reaction_added" /\ pc \notin {"idle", "history"} /\ req # NoRequest

\* the calls of the flow other than the reaction handler's read of the reacted message
FlowCalls == SelectSeq(calls, LAMBDA c : c.op # "conversations_history")

Issued(api, op, what) ==
    \E i \in DOMAIN calls : calls[i].api = api /\ calls[i].op = op /\ calls[i].what = what

Failed(api, op, what) ==
    \E i \in DOMAIN calls :
        calls[i].api = api /\ calls[i].op = op /\ calls[i].what = what /\ ~calls[i].ok

\* the collaborator calls that failed
FailedCalls == {i \in DOMAIN calls : ~calls[i].ok}

NoSideEffect == FlowCalls = <<>> /\ channels = {} /\ db = {}

\* the positions of create_incident before the persistence step has run
BeforePersistence ==
    {"idle", "history", "precheck", "create_channel", "digest", "topic", "boilerplate",
     "pin_boilerplate", "conference", "pin_conference", "db_write"}

\* the positions of create_incident before the boilerplate pin has run
BeforeBoilerplatePin ==
    {"idle", "history", "precheck", "create_channel", "digest", "topic", "boilerplate",
     "pin_boilerplate"}

\* the decimal numerals of the clock values used, written out
Numeral(n) ==
    CASE n = 0 -> <<"0">>
      [] n = 1 -> <<"1">>
      [] n = 2 -> <<"2">>
      [] n = 4 -> <<"4">>
      [] n = 5 -> <<"5">>
      [] n = 10 -> <<"1","0">>
      [] n = 11 -> <<"1","1">>
      [] n = 12 -> <<"1","2">>
      [] n = 15 -> <<"1","5">>
      [] n = 24 -> <<"2","4">>
      [] n = 2023 -> <<"2","0","2","3">>

OnlyAlnumAndSpaces(d) ==
    \A i \in DOMAIN d : d[i] \in UpperChars \cup LowerChars \cup DigitChars \cup {" "}

----------------------------------------------------------------------------
(* Properties *)

\* C1: a request whose incident_description has length >= the description cap
\* (80 - len("inc-20211116-") = 67) makes create_incident return the length-exceeded
\* rejection string with no side effect: no channel, no platform call, no persistence
\* call, no audit-log write.
C1_TooLongRejected ==
    /\ incident_description_max_length = 67
    /\ (CreateIncidentCalled /\ Len(req.incident_description) >= 67) =>
          /\ NoSideEffect
          /\ pc \in {"precheck", "done"}
          /\ pc = "done" =>
                /\ result.kind = "return"
                /\ result.value = "Incident description cannot exceed the limit."

C1_Witness ==
    /\ pc = "done"
    /\ entry = "create_incident"
    /\ Len(req.incident_description) = 67
    /\ result.kind = "return"

\* C2: a request whose incident_description is empty makes create_incident return a
\* user-facing rejection string with no side effect.
C2_EmptyRejected ==
    (CreateIncidentCalled /\ Len(req.incident_description) = 0) =>
        /\ NoSideEffect
        /\ pc \in {"precheck", "done"}
        /\ pc = "done" =>
              /\ result.kind = "return"
              /\ result.value = "Please provide a description for the channel."

C2_Witness ==
    /\ pc = "done"
    /\ entry = "create_incident"
    /\ req.incident_description = <<>>
    /\ result.kind = "return"

\* C3: for every description create_incident accepts (non-empty, shorter than the
\* description cap) and every creation time, the formatted channel name is at most
\* 80 characters long.
C3_NameWithinCap ==
    (fmt.done /\ fmt.description # <<>> /\ Len(fmt.description) < 67) => Len(fmt.name) <= 80

\* C4: for every description shorter than the cap that holds only alphanumerics and
\* spaces, the channel name is "inc-", then year, month, day, hour and minute of now
\* concatenated, a dash, and the description lowercased with each space made a dash.
C4_NameShape ==
    (fmt.done /\ Len(fmt.description) < 67 /\ OnlyAlnumAndSpaces(fmt.description)) =>
        fmt.name = <<"i","n","c","-">>
                     \o Numeral(fmt.now.year) \o Numeral(fmt.now.month) \o Numeral(fmt.now.day)
                     \o Numeral(fmt.now.hour) \o Numeral(fmt.now.minute) \o <<"-">>
                     \o [i \in DOMAIN fmt.description |->
                           IF fmt.description[i] = " " THEN "-"
                           ELSE LowerChar(fmt.description[i])]

C4_Witness ==
    /\ fmt.done
    /\ fmt.description = <<"B", " ">>
    /\ fmt.now = [year |-> 2023, month |-> 11, day |-> 2, hour |-> 0, minute |-> 15]
    /\ fmt.name = <<"i","n","c","-","2","0","2","3","1","1","2","0","1","5","-","b","-">>

AtDbOutageTime ==
    /\ fmt.done
    /\ fmt.description = DbOutage
    /\ fmt.now = [year |-> 2023, month |-> 4, day |-> 24, hour |-> 10, minute |-> 5]

ListedViolations(request, severities) ==
    {f \in {"channel", "incident_description", "severity"} :
        request[f].type = "none" \/ (request[f].type = "string" /\ request[f].v = "")}
    \cup {f \in {"severity"} : request[f].type = "string" /\ request[f].v \notin severities}
    \cup {f \in {"created_from_web", "is_security_incident", "private_channel"} :
            request[f].type # "boolean"}

\* every field whose value breaks the schema: the listed ones, and any field whose
\* value is not of the schema's type
SchemaViolations(request, severities) ==
    ListedViolations(request, severities)
    \cup {f \in Fields \ {"created_from_web", "is_security_incident", "private_channel"} :
            request[f].type # "string"}

InvalidRequest == req.channel = "" \/ req.severity \notin config.severities

\* C7: every request is validated before use: on every path into create_incident, the
\* reaction-triggered one included, a request with an empty channel or a severity
\* outside the configured set causes no channel creation, no post and no persisted
\* incident, and no incident is ever persisted with a severity outside the set.
C7_ValidatedBeforeUse ==
    /\ (CreateIncidentCalled /\ InvalidRequest) =>
          /\ channels = {}
          /\ db = {}
          /\ \A i \in DOMAIN calls :
                calls[i].ok => calls[i].op \notin {"conversations_create", "chat_postMessage"}
    /\ \A r \in db : r.severity \in config.severities

\* C8: when the digest post fails (and nothing else does), the flow still posts the
\* boilerplate message and still writes the incident record to the database.
C8_DigestFailureIsolated ==
    (/\ Failed("slack", "chat_postMessage", "digest")
     /\ Cardinality(FailedCalls) = 1
     /\ pc \notin BeforePersistence) =>
        /\ Issued("slack", "chat_postMessage", "boilerplate")
        /\ \E r \in db : r.incident_id = loc.channel_name

\* C9: when the channel-creation call fails, create_incident logs the error and goes
\* on: it does not raise, and the digest notification is still attempted.
C9_ChannelFailureContinues ==
    Failed("slack", "conversations_create", "incident") =>
        /\ Issued("log", "error", "create_channel")
        /\ result.kind # "raise"
        /\ pc = "done" => Issued("slack", "chat_postMessage", "digest")

\* C10: when the boilerplate post fails, the failure is logged and the pin is still
\* attempted: pins_add is invoked in every flow that reaches the boilerplate step,
\* whether or not the post succeeded.
C10_PinAlwaysAttempted ==
    (Issued("slack", "chat_postMessage", "boilerplate") /\ pc \notin BeforeBoilerplatePin) =>
        /\ Issued("slack", "pins_add", "boilerplate")
        /\ Failed("slack", "chat_postMessage", "boilerplate") => Issued("log", "error", "boilerplate")

\* create_incident was entered and the request passed the two description checks
PassedPrechecks == CreateIncidentCalled /\ Accepts(req.incident_description)

\* the number of calls of one kind made so far
Count(api, op, what) ==
    Cardinality({i \in DOMAIN calls :
                    calls[i].api = api /\ calls[i].op = op /\ calls[i].what = what})

\* every configured auto-invite group exists in the workspace directory
AllGroupsResolve ==
    config.auto_invite => \A i \in DOMAIN InviteGroups : InviteGroups[i] \in config.usergroups

\* the flow has entered handle_incident_optional_features
ReachedOptionalFeatures ==
    \E i \in DOMAIN calls : calls[i].op = "db_update_incident_created_at_col"

\* the positions after handle_incident_optional_features
AfterOptionalFeatures == {"invite_user", "audit", "done"}

\* the applicable optional steps have all been attempted
OptionalFeaturesAttempted ==
    /\ config.auto_invite =>
          \A i \in DOMAIN InviteGroups :
              InviteGroups[i] \in config.usergroups =>
                  \E j \in DOMAIN calls :
                      calls[j].op = "conversations_invite" /\ calls[j].what = InviteGroups[i]
    /\ config.statuspage => Issued("slack", "chat_postMessage", "statuspage")
    /\ config.pagerduty =>
          \A i \in DOMAIN config.auto_page_targets :
              \E j \in DOMAIN calls :
                  calls[j].op = "page" /\ calls[j].what = config.auto_page_targets[i].ep

\* create_incident returned the confirmation, after the user invite and the audit entry
ReturnedConfirmation ==
    /\ result.kind = "return"
    /\ result.value = "I've created the incident channel"
    /\ result.channel = loc.id
    /\ \E i \in DOMAIN calls : calls[i].op = "invite_user_to_channel" /\ calls[i].arg = req.user
    /\ \E i \in DOMAIN calls : calls[i].api = "audit" /\ calls[i].what = "Incident created."

\* C11: when db_write_incident fails (the only failure of the flow, every configured
\* group resolving), create_incident does not raise: it logs at fatal level, goes on
\* with the creation-timestamp patch, the optional features, the user invite and the
\* audit-log entry and returns the confirmation string; the channel exists in the chat
\* platform, no database record exists, and the channel is not rolled back.
C11_DbWriteFailureContinues ==
    (/\ Failed("db", "db_write_incident", "incident")
     /\ Cardinality(FailedCalls) = 1
     /\ AllGroupsResolve) =>
        /\ Issued("log", "fatal", "db_write")
        /\ result.kind # "raise"
        /\ db = {}
        /\ loc.channel_name \in channels
        /\ pc # "db_created_at" => Issued("db", "db_update_incident_created_at_col", "created_at")
        /\ pc \in AfterOptionalFeatures => OptionalFeaturesAttempted
        /\ pc = "done" => ReturnedConfirmation

C11_Witness ==
    /\ pc = "done"
    /\ Failed("db", "db_write_incident", "incident")
    /\ config.auto_invite /\ config.statuspage /\ config.pagerduty
    /\ config.auto_page_targets # <<>>
    /\ result.kind = "return"
    /\ db = {}
    /\ channels # {}

\* C12: when the topic-set call or the conference-bridge post or pin fails with a
\* platform error (the only failure of the flow, every configured group resolving), the
\* failure is only logged: the record is persisted with all derived fields, the
\* creation timestamp is patched, the optional features, the user invite and the audit
\* entry are executed, and the confirmation string is returned.
C12_TopicConferenceFailureLogged ==
    (/\ \/ Failed("slack", "conversations_setTopic", "topic")
        \/ Failed("slack", "chat_postMessage", "conference")
        \/ Failed("slack", "pins_add", "conference")
     /\ Cardinality(FailedCalls) = 1
     /\ AllGroupsResolve) =>
        /\ Failed("slack", "conversations_setTopic", "topic") => Issued("log", "error", "topic")
        /\ ~Failed("slack", "conversations_setTopic", "topic") => Issued("log", "error", "conference")
        /\ result.kind # "raise"
        /\ pc \notin BeforePersistence =>
              /\ Cardinality(db) = 1
              /\ \A r \in db :
                    /\ r.incident_id = loc.channel_name
                    /\ r.channel_id = loc.id
                    /\ r.status = "investigating"
                    /\ r.severity = req.severity
                    /\ r.bp_message_ts = "ts_bp"
                    /\ r.dig_message_ts = "ts_digest"
                    /\ r.conference_bridge = "bridge"
                    /\ r.channel_description = req.incident_description
                    /\ pc # "db_created_at" => r.created_at = "timestamp"
        /\ pc \in AfterOptionalFeatures => OptionalFeaturesAttempted
        /\ pc = "done" => ReturnedConfirmation

C12_Witness ==
    /\ pc = "done"
    /\ Failed("slack", "pins_add", "conference")
    /\ config.statuspage
    /\ result.kind = "return"
    /\ \E r \in db : r.created_at = "timestamp"

\* C13: every create_incident call that passes the precondition checks runs to
\* completion whatever collaborator calls fail: at its end it has attempted the user
\* invite and the "Incident created." audit entry and returns the confirmation string.
C13_RunsToCompletion ==
    (PassedPrechecks /\ pc = "done") => ReturnedConfirmation

\* C14: handle_incident_optional_features attempts every enabled step whatever happened
\* in the earlier ones: no exception of the auto-invite, Statuspage or link-back step
\* leaves the runner, and the Statuspage prompt and the paging are still attempted.
C14_OptionalStepsIsolated ==
    (ReachedOptionalFeatures /\ pc \in AfterOptionalFeatures) =>
        /\ ~(result.kind = "raise" /\ result.value \in {"UnboundLocalError", "AttributeError"})
        /\ config.statuspage => Issued("slack", "chat_postMessage", "statuspage")
        /\ (config.pagerduty /\ config.auto_page_targets # <<>>) =>
              \E j \in DOMAIN calls : calls[j].op = "page"

\* the group was found in the workspace directory and its member list was read
GroupResolved(g) ==
    /\ g \in config.usergroups
    /\ \E j \in DOMAIN calls :
          calls[j].op = "usergroups_users_list" /\ calls[j].arg = g /\ calls[j].ok

\* the group is missing from a non-empty directory, or reading its members failed
GroupUnresolved(g) ==
    \/ config.usergroups # {} /\ g \notin config.usergroups
    \/ \E j \in DOMAIN calls :
          calls[j].op = "usergroups_users_list" /\ calls[j].arg = g /\ ~calls[j].ok

\* C15: in the auto-invite step, when one configured group cannot be resolved, every
\* other configured group, listed before or after it, is still resolved and its
\* members are invited.
C15_OtherGroupsStillInvited ==
    (/\ ReachedOptionalFeatures
     /\ pc \in AfterOptionalFeatures
     /\ config.auto_invite
     /\ \E i \in DOMAIN InviteGroups : GroupUnresolved(InviteGroups[i])) =>
        \A i \in DOMAIN InviteGroups :
            (InviteGroups[i] \in config.usergroups /\ ~GroupUnresolved(InviteGroups[i])) =>
                /\ GroupResolved(InviteGroups[i])
                /\ \E j \in DOMAIN calls :
                      calls[j].op = "conversations_invite" /\ calls[j].what = InviteGroups[i]

\* C16: in the auto-invite step an unresolved group is skipped: an invite call and a
\* "Group ... invited" audit entry exist for a group only if that group was resolved,
\* and the members invited are that group's own.
C16_UnresolvedGroupSkipped ==
    \A j \in DOMAIN calls :
        /\ calls[j].op = "conversations_invite" =>
              GroupResolved(calls[j].arg) /\ calls[j].what = calls[j].arg
        /\ (calls[j].api = "audit" /\ calls[j].what = "Group invited") =>
              GroupResolved(calls[j].arg)

\* C17: whenever an incident is created through the reaction trigger and the platform
\* calls succeed, the optional-features run posts the link-back message in the new
\* channel and the confirmation in the original channel.
C17_ReactionIncidentLinksBack ==
    (/\ entry = "reaction_added"
     /\ pc = "done"
     /\ PassedPrechecks
     /\ result.kind = "return"
     /\ FailedCalls = {}) =>
        /\ Issued("slack", "chat_postMessage", "linkback")
        /\ \E j \in DOMAIN calls :
              calls[j].what = "linkback_origin" /\ calls[j].arg = req.channel

\* C18: make_reacji_incident starts an incident creation if and only if creation from
\* reactions is enabled and the reaction is the configured reacji; otherwise (disabled,
\* not configured, or another emoji) it returns False without raising, without reading
\* the channel history and without calling create_incident.
C18_ReacjiGuard ==
    entry = "reaction_added" =>
        IF config.create_from_reaction = "enabled" /\ loc.reaction = Reacji
        THEN reacji \notin {"False", "raise"}
        ELSE /\ pc = "done"
             /\ reacji = "False"
             /\ calls = <<>>
             /\ req = NoRequest

\* a call or log record made by handle_incident_optional_features
OptionalCall(c) ==
    \/ c.op \in {"usergroups_users_list", "conversations_invite", "page",
                 "db_update_incident_sp_ts_col"}
    \/ c.what \in {"statuspage", "linkback", "linkback_origin", "Group invited",
                   "Created PagerDuty incident", "group_not_found", "group_format",
                   "group_invite", "statuspage_ts"}

\* the two calls create_incident makes after the optional-features run
ClosingCall(c) ==
    \/ c.op = "invite_user_to_channel"
    \/ c.api = "audit" /\ c.what = "Incident created."

\* every enabled sub-step of the optional-features run has finished
OptionalFeaturesFinished ==
    /\ config.auto_invite => loc.gi = Len(InviteGroups) + 1
    /\ config.statuspage =>
          /\ Issued("slack", "chat_postMessage", "statuspage")
          /\ \/ Issued("db", "db_update_incident_sp_ts_col", "sp_message_ts")
             \/ Issued("log", "fatal", "statuspage_ts")
    /\ config.pagerduty => loc.ti = Len(config.auto_page_targets) + 1

\* C19: within one create_incident flow the optional-features run is a single awaited
\* unit: the invite of the requesting user, the "Incident created." audit entry and the
\* return of the confirmation happen only after every optional sub-step has finished,
\* and no optional-feature side effect follows them: when create_incident has returned,
\* the audit entry is the last thing the flow did.
C19_OptionalFeaturesAwaited ==
    /\ \A j \in DOMAIN calls :
          ClosingCall(calls[j]) => \A i \in j..Len(calls) : ~OptionalCall(calls[i])
    /\ (\E j \in DOMAIN calls : ClosingCall(calls[j])) => OptionalFeaturesFinished
    /\ (pc = "done" /\ PassedPrechecks /\ result.kind = "return") =>
          /\ OptionalFeaturesFinished
          /\ ClosingCall(calls[Len(calls)])

C19_Witness ==
    /\ pc = "done"
    /\ result.kind = "return"
    /\ config.auto_invite /\ config.statuspage /\ config.pagerduty
    /\ config.auto_page_targets # <<>>
    /\ \E i \in DOMAIN calls : calls[i].op = "page" /\ calls[i].what = "ep2"
    /\ ClosingCall(calls[Len(calls)])

\* C20: a create_incident flow with a valid request and no failure (no collaborator
\* call failing, every configured group resolving) produces exactly one digest post,
\* one boilerplate post and one pin of it, exactly one persisted record, with status
\* "investigating" and incident_id equal to the channel name, and returns the
\* confirmation holding the reference to the created channel's id.
C20_HappyPath ==
    (/\ pc = "done"
     /\ PassedPrechecks
     /\ ~InvalidRequest
     /\ FailedCalls = {}
     /\ AllGroupsResolve) =>
        /\ Count("slack", "chat_postMessage", "digest") = 1
        /\ Count("slack", "chat_postMessage", "boilerplate") = 1
        /\ Count("slack", "pins_add", "boilerplate") = 1
        /\ Cardinality(db) = 1
        /\ \A r \in db :
              /\ r.status = "investigating"
              /\ r.incident_id = loc.channel_name
              /\ r.channel_name \in channels
        /\ ReturnedConfirmation
        /\ result.channel = NewChannelId

C20_Witness ==
    /\ pc = "done"
    /\ entry = "create_incident"
    /\ FailedCalls = {}
    /\ ~InvalidRequest
    /\ req.incident_description = DbOutage
    /\ result.kind = "return"
    /\ Cardinality(db) = 1

\* C21: after any sequence of create_incident calls no two persisted incident records
\* share an incident_id, also when two requests carry the same description within the
\* same minute.
C21_IncidentIdUnique ==
    \A r1, r2 \in db : r1.incident_id = r2.incident_id => r1 = r2

\* the template names a replacement field the format call has no argument for
UnknownPlaceholder(template, names) ==
    \E i \in DOMAIN template : template[i].kind = "field" /\ template[i].name \notin names

TitleFieldNames == {"date", "incident_title"}

BodyFieldNames ==
    {"description", "incident_start", "incident_detection", "regions", "ingest_impacted",
     "notifications_impacted", "owner", "slack_channel_name", "slack_channel_id",
     "detection_source"}

\* the latest new() call ran on an object without an issue and got its template
NewCallFormatted ==
    /\ gh.last.kind # "none"
    /\ gh.last.issue_before = 0
    /\ gh.last.value # "GithubException"

\* C22: GithubIssue.new treats a template-formatting error as a hard failure: when the
\* title or body template holds an unknown placeholder, new raises to the caller,
\* create_issue is never called, and the stored issue reference stays as it was.
C22_TemplateErrorIsHardFailure ==
    (/\ NewCallFormatted
     /\ \/ UnknownPlaceholder(gh.template.title_template, TitleFieldNames)
        \/ UnknownPlaceholder(gh.template.body_template, BodyFieldNames)) =>
        /\ gh.last.kind = "raise"
        /\ gh.last.value \in {"RuntimeError", "IndexError"}
        /\ gh.last.ops = <<"get_contents">>
        /\ gh.repo = <<>>
        /\ gh.last.rca_after = gh.last.rca_before
        /\ gh.last.issue_after = 0

C22_Witness ==
    /\ NewCallFormatted
    /\ ~UnknownPlaceholder(gh.template.title_template, TitleFieldNames)
    /\ FirstUnfilled(gh.template.title_template, TitleArgs) = 0
    /\ UnknownPlaceholder(gh.template.body_template, BodyFieldNames)
    /\ gh.last.kind = "raise"
    /\ gh.last.value = "RuntimeError"

\* C29: GithubIssue.new on an incident that already has a GitHub issue returns None
\* and calls neither the template fetch, create_issue nor the database update; the
\* existing issue reference is unchanged.
C29_ExistingIssueReturnsNone ==
    (gh.last.kind # "none" /\ gh.last.issue_before # 0) =>
        /\ gh.last.kind = "return"
        /\ gh.last.value = "None"
        /\ gh.last.ops = <<"log_error">>
        /\ gh.last.issue_after = gh.last.issue_before
        /\ gh.last.rca_after = gh.last.rca_before

C29_Witness ==
    /\ gh.last.kind = "return"
    /\ gh.last.value = "None"
    /\ gh.last.issue_before = 1
    /\ gh.rca = IssueUrl(1)

\* C30: over any sequence of GithubIssue.new calls for one incident, each made on a
\* GithubIssue built from the stored incident record, at most one GitHub issue is ever
\* created, also when the database update that stores the issue link fails.
C30_AtMostOneIssue ==
    gh.pc # "off" => Len(gh.repo) <= 1

\* C23: in the auto-paging step one page is triggered for each configured target and
\* one audit entry is written per page: a "Created PagerDuty incident for team k" entry
\* exists only if the page for team k was triggered, and a failure paging one target
\* does not leave later targets unpaged.
C23_PagePerTargetAudited ==
    /\ \A j \in DOMAIN calls :
          (calls[j].api = "audit" /\ calls[j].what = "Created PagerDuty incident") =>
              \E i \in DOMAIN calls :
                  calls[i].op = "page" /\ calls[i].arg = calls[j].arg /\ calls[i].ok
    /\ (/\ pc \in AfterOptionalFeatures
        /\ \E i \in DOMAIN calls : calls[i].op = "page") =>
          \A k \in DOMAIN config.auto_page_targets :
              \E i \in DOMAIN calls :
                  calls[i].op = "page" /\ calls[i].arg = config.auto_page_targets[k].team

\* the database updates of the flow
UpdateOps == {"db_update_incident_created_at_col", "db_update_incident_sp_ts_col"}

\* C24: within one create_incident flow the record is written once and then patched:
\* db_write_incident is called at most once, and every update call of the flow is
\* issued after the write call and is keyed by the incident_id of the write.
C24_WriteOnceThenPatch ==
    /\ Count("db", "db_write_incident", "incident") <= 1
    /\ \A j \in DOMAIN calls :
          calls[j].op \in UpdateOps =>
              \E i \in 1..(j - 1) :
                  calls[i].op = "db_write_incident" /\ calls[i].key = calls[j].key

\* the optional step a call or log record belongs to: 1 auto-invite, 2 Statuspage
\* prompt, 3 link-back, 4 auto-paging, 0 for the rest of create_incident
StepOf(c) ==
    IF \/ c.op \in {"usergroups_users_list", "conversations_invite"}
       \/ c.what \in {"Group invited", "group_not_found", "group_format", "group_invite"}
    THEN 1
    ELSE IF c.what \in {"statuspage", "sp_message_ts", "statuspage_ts"} THEN 2
    ELSE IF c.what \in {"linkback", "linkback_origin"} THEN 3
    ELSE IF c.op = "page" \/ c.what = "Created PagerDuty incident" THEN 4
    ELSE 0

\* the configuration gate of each optional step
GateOn(step) ==
    CASE step = 1 -> config.auto_invite
      [] step = 2 -> config.statuspage
      [] step = 3 -> internal /\ config.create_from_reaction = "enabled"
      [] step = 4 -> config.pagerduty

\* C25: handle_incident_optional_features executes its applicable steps in the fixed
\* order auto-invite, Statuspage prompt, link-back, auto-paging: no side effect of a
\* later step comes before a side effect of an earlier one, and a step whose gate is off
\* produces no side effect.
C25_OptionalStepsOrdered ==
    \A j \in DOMAIN calls :
        StepOf(calls[j]) > 0 =>
            /\ GateOn(StepOf(calls[j]))
            /\ j > 1
            /\ IF StepOf(calls[j - 1]) > 0
               THEN StepOf(calls[j - 1]) <= StepOf(calls[j])
               ELSE \A i \in 1..(j - 1) : StepOf(calls[i]) = 0

C25_Witness ==
    /\ pc = "done"
    /\ result.kind = "return"
    /\ config.auto_invite /\ config.statuspage /\ config.pagerduty
    /\ \E i, j, k \in DOMAIN calls :
          /\ i < j /\ j < k
          /\ calls[i].op = "conversations_invite" /\ calls[i].arg = "g2"
          /\ calls[j].op = "db_update_incident_sp_ts_col"
          /\ calls[k].op = "page" /\ calls[k].arg = "t1"

\* C26: the Statuspage message timestamp of the record is patched only with the
\* timestamp of a prompt posted in this flow: when the prompt post fails, no update of
\* the Statuspage timestamp column reaches the database, the failure is logged, and the
\* following steps still run (the paging and the end of create_incident, when the post
\* is the flow's only failure).
C26_StatuspageTimestampOnlyIfPosted ==
    /\ \A j \in DOMAIN calls :
          calls[j].op = "db_update_incident_sp_ts_col" =>
              \E i \in 1..(j - 1) :
                  /\ calls[i].op = "chat_postMessage"
                  /\ calls[i].what = "statuspage"
                  /\ calls[i].ok
    /\ \A r \in db :
          /\ r.sp_message_ts \in {"", "ts_sp"}
          /\ r.sp_message_ts = "ts_sp" => loc.sp_starter_message = "ts_sp"
    /\ Failed("slack", "chat_postMessage", "statuspage") =>
          /\ ~Issued("db", "db_update_incident_sp_ts_col", "sp_message_ts")
          /\ Issued("log", "error", "statuspage")
          /\ \A r \in db : r.sp_message_ts = ""
    /\ (Failed("slack", "chat_postMessage", "statuspage") /\ Cardinality(FailedCalls) = 1) =>
          /\ result.kind # "raise"
          /\ (pc \in AfterOptionalFeatures /\ config.pagerduty) =>
                \A k \in DOMAIN config.auto_page_targets :
                    \E i \in DOMAIN calls :
                        calls[i].op = "page" /\ calls[i].arg = config.auto_page_targets[k].team
          /\ pc = "done" => ReturnedConfirmation

C26_Witness ==
    /\ pc = "done"
    /\ Failed("slack", "chat_postMessage", "statuspage")
    /\ config.pagerduty /\ config.auto_page_targets # <<>>
    /\ \E r \in db : r.sp_message_ts = ""
    /\ result.kind = "return"

\* C27: for a fixed description, the channel names formatted at two different clock
\* minutes (two different (year, month, day, hour, minute) tuples) are different.
C27_MinuteIdentifiesName ==
    fmt.done =>
        \A t \in Times : t # fmt.now => format_channel_name(fmt.description, t) # fmt.name

\* C28: for every description, those with tabs, other whitespace and punctuation
\* included, the formatted channel name holds only lowercase letters, digits and dashes.
C28_NameCharset ==
    fmt.done =>
        \A i \in DOMAIN fmt.name : fmt.name[i] \in LowerChars \cup DigitChars \cup {"-"}


----------------------------------------------------------------------------
(* Pinned content: C31, C32 *)

\* the incident table holds an incident for the channel of the handled pin event
PinChannelHasIncident ==
    \E r \in PinIncidents : r.channel_id = pin.last.event.channel

\* the handled pin event ended in a failure of the user lookup, of the reporter's post or
\* of a content write
StoreFailed ==
    pin.last.kind = "raise" /\ pin.last.value \in {"SlackApiError", "DatabaseError"}

\* the image files and the other files of the MessageContent the handler built
PinImages == SelectSeq(pin.last.files, LAMBDA f : Infix(ImageWord, f.mimetype))

PinNonImages == SelectSeq(pin.last.files, LAMBDA f : ~Infix(ImageWord, f.mimetype))

\* C31: a pin event whose channel matches no incident, or whose item is not a message,
\* writes no content, posts nothing and comments nothing. Every content row pin_added
\* writes is stored under the incident_id of the incident of the event's channel, and
\* when the incident was read, the item is a message and no call failed, the message
\* text is among the rows written.
C31_PinStoresOnlyIncidentMessages ==
    pin.pc = "done" =>
        /\ (~PinChannelHasIncident \/ pin.last.event.type # "message") =>
              /\ pin.last.writes = <<>>
              /\ pin.last.posts = <<>>
              /\ pin.last.comment = "none"
              /\ pin.last.kind = "return"
        /\ \A i \in DOMAIN pin.last.writes :
              \E r \in PinIncidents :
                 /\ r.channel_id = pin.last.event.channel
                 /\ pin.last.writes[i].incident_id = r.incident_id
        /\ (pin.last.incident_id # "" /\ pin.last.event.type = "message" /\ ~StoreFailed) =>
              \E i \in DOMAIN pin.last.writes :
                 /\ pin.last.writes[i].kind = "text"
                 /\ pin.last.writes[i].title = pin.last.event.text
                 /\ pin.last.writes[i].incident_id = pin.last.incident_id

C31_Witness ==
    /\ pin.pc = "done"
    /\ pin.last.event.channel = "C010"
    /\ pin.last.event.type = "message"
    /\ Len(pin.last.writes) = 2
    /\ pin.last.writes[2].incident_id = "inc-b"
    /\ pin.last.writes[2].kind = "text"

\* C32: store_to_db on a message content with n image files and m other files writes
\* only under the given incident_id, writes no file that is not an image, calls the
\* error reporter once when m > 0 and not at all when m = 0, and, when no call of it
\* fails, makes exactly n + 1 content writes: one per image file, in order, and then one
\* for the message text.
C32_StoreToDbWrites ==
    (pin.pc = "done" /\ pin.last.incident_id # "" /\ pin.last.event.type = "message") =>
        LET n == Len(PinImages)
            m == Len(PinNonImages)
            writes == pin.last.writes
        IN  /\ \A i \in DOMAIN writes :
                  /\ writes[i].incident_id = pin.last.incident_id
                  /\ writes[i].kind = "image" => Infix(ImageWord, writes[i].mimetype)
                  /\ writes[i].kind \in {"image", "text"}
            /\ Len(pin.last.posts) = (IF m > 0 THEN 1 ELSE 0)
            /\ \A i \in DOMAIN pin.last.posts : pin.last.posts[i].non_images = m
            /\ Len(writes) <= n + 1
            /\ ~StoreFailed =>
                  /\ Len(writes) = n + 1
                  /\ writes[n + 1].kind = "text"
                  /\ \A i \in 1..n :
                        /\ writes[i].kind = "image"
                        /\ writes[i].title = PinImages[i].name

C32_Witness ==
    /\ pin.pc = "done"
    /\ Len(PinImages) = 1
    /\ Len(PinNonImages) = 1
    /\ Len(pin.last.writes) = 2
    /\ Len(pin.last.posts) = 1
    /\ pin.last.kind = "return"


----------------------------------------------------------------------------
(* Digest-channel chatter, one event after the other: C33, C34 *)

\* the latest handler call issued the help-message post
HelpPostIssued ==
    \E i \in DOMAIN trk.last.api : trk.last.api[i].op = "chat_postMessage"

C34_OtherMessagesIgnored ==
    (trk.handled > 0
        /\ (trk.last.event.channel # DigestChannel \/ trk.last.event.has_subtype)) =>
        /\ trk.tracking.calls = trk.last.calls_before
        /\ trk.tracking.message_ts = trk.last.ts_before
        /\ trk.last.api = <<>>
        /\ trk.last.kind = "return"

\* a message update in the digest channel is handled while the counter stands at 3
C34_Witness ==
    /\ trk.handled > 0
    /\ trk.last.event.channel = DigestChannel
    /\ trk.last.event.has_subtype
    /\ trk.last.calls_before = 3
    /\ trk.tracking.calls = 3


----------------------------------------------------------------------------
(* Digest-channel chatter, handlers side by side: C35 *)

\* C35: however the handlers of distinct digest-channel messages interleave, the help
\* messages posted so far number at most one per 4 qualifying messages counted so far.
C35_OneHelpPerCrossing ==
    trk.pc = "dispatch" => trk.helps * (chatter_threshold + 1) <= trk.counted

====
